---- MODULE Spec2Model ----
(***************************************************************************)
(* A model of topogen: main() (src/src/topogen/main.py) dispatching to the *)
(* live renderers and the offline YAML writers of Renderer                 *)
(* (src/src/topogen/render.py).                                            *)
(*                                                                         *)
(* One behaviour is one run of the program: Init fixes the command line    *)
(* (args) and the loaded configuration (cfg), every action is one step of  *)
(* main() or of the renderer it dispatches to.  IPv4 addresses are the     *)
(* integers the ipaddress module computes with; node labels are pairs      *)
(* <<prefix, number>> (<<"R", 3>> is "R3").                                *)
(***************************************************************************)
EXTENDS Integers, Sequences, FiniteSets, TLC

(***************************************************************************)
(* Bounds of the explored input space.                                     *)
(***************************************************************************)
MaxNodes == 5
MaxGroup == 3
MaxHub == 6

(***************************************************************************)
(* Program constants.                                                      *)
(***************************************************************************)
MAX_SW_PORTS == 32
IPV4LENGTH == 32
LICENSE_SOFT_CAP == 520

Pow2(n) == 2 ^ n

\* a.b.c.d as the integer ipaddress works with
Ip(a, b, c, d) == a * Pow2(24) + b * Pow2(16) + c * Pow2(8) + d

Max(a, b) == IF a > b THEN a ELSE b
Min(a, b) == IF a < b THEN a ELSE b

Net(addr, plen) == [addr |-> addr, plen |-> plen]

\* IPv4Network.num_addresses
NumAddresses(net) == Pow2(IPV4LENGTH - net.plen)

\* IPv4Network.broadcast_address
BroadcastAddress(net) == net.addr + NumAddresses(net) - 1

\* IPv4Network(str) is strict: host bits set raise ValueError
ValidNetwork(net) == net.addr % NumAddresses(net) = 0

\* list(IPv4Network.hosts()): all addresses but network and broadcast; a /31
\* keeps both addresses and a /32 its only one
Hosts(net) ==
    LET n == NumAddresses(net) IN
    IF n = 1 THEN << net.addr >>
    ELSE IF n = 2 THEN << net.addr, net.addr + 1 >>
    ELSE [k \in 1..(n - 2) |-> net.addr + k]

\* IPv4Network.subnets(prefixlen_diff=d): how many subnets the generator yields
SubnetCount(pool, d) == IF d < 0 THEN 0 ELSE Pow2(d)

SubnetAt_HalfStep(pool, d, k) ==
    Net(pool.addr + k * Max(1, Pow2(IPV4LENGTH - (pool.plen + d)) \div 2),
        pool.plen + d)

\* IPv4Network.subnets(prefixlen_diff=d): the k-th subnet yielded (k from 0)
SubnetAt(pool, d, k) ==
    Net(pool.addr + k * Pow2(IPV4LENGTH - (pool.plen + d)), pool.plen + d)

\* math.ceil(a / b) for positive b
Ceil(a, b) == (a + b - 1) \div b

\* None where an address is expected
NoAddr == -1

And0x7F(x) == x % 128

\* x & 0xFF
And0xFF(x) == x % 256

(***************************************************************************)
(* Inputs: command lines and configurations.                               *)
(***************************************************************************)
SmallNodeCounts == 2..MaxNodes
LargeNodeCounts == {MAX_SW_PORTS, MAX_SW_PORTS + 1}
NodeCounts == SmallNodeCounts \cup LargeNodeCounts
GroupSizes == (0..MaxGroup) \cup {MAX_SW_PORTS - 1, MAX_SW_PORTS}

\* --dmvpn-hubs: None (the empty set) or a list of distinct router numbers
HubLists == {h \in SUBSET (0..MaxHub) : Cardinality(h) <= 2}

DefaultNbma == Net(Ip(10, 10, 0, 0), 16)
\* 172.20.0.0/16 in the program; moved below 2^31, same size
DefaultTunnel == Net(Ip(100, 20, 0, 0), 16)

\* --dmvpn-nbma-cidr / --dmvpn-tunnel-cidr: the defaults, small pools, and
\* one with host bits set
DmvpnCidrs ==
    { << DefaultNbma, DefaultTunnel >>,
      << Net(Ip(10, 10, 0, 0), 29), DefaultTunnel >>,
      << DefaultNbma, Net(Ip(100, 20, 0, 0), 29) >>,
      << Net(Ip(10, 10, 0, 0), 30), Net(Ip(100, 20, 0, 0), 30) >>,
      << Net(Ip(10, 10, 0, 1), 16), DefaultTunnel >> }

\* Config(): loopbacks 10.0.0.0/8, p2pnets 172.16.0.0/12 (moved below 2^31,
\* same size)
DefaultConfig ==
    [loopbacks |-> Net(Ip(10, 0, 0, 0), 8), p2pnets |-> Net(Ip(100, 16, 0, 0), 12)]

\* a config.toml whose loopback pool holds four /32s
SmallLoopbacks ==
    [loopbacks |-> Net(Ip(10, 0, 0, 0), 30), p2pnets |-> Net(Ip(100, 16, 0, 0), 12)]

\* a config.toml whose point-to-point pool holds one /30
SmallP2p ==
    [loopbacks |-> Net(Ip(10, 0, 0, 0), 8), p2pnets |-> Net(Ip(100, 16, 0, 0), 30)]

Configs == {DefaultConfig, SmallLoopbacks, SmallP2p}

\* a template name: what precedes the suffix, and the suffix
Tpl(base, suffix) == << base, suffix >>

\* get_templates(): the templates of the package; one '-dmvpn' template is
\* packaged without an '-eigrp' companion
PackagedTemplates ==
    { Tpl("iosv", ""), Tpl("iosv", "-eigrp"), Tpl("iosv", "-dmvpn"),
      Tpl("csr", "-eigrp"), Tpl("csr", "-ospf"), Tpl("lab", "-dmvpn") }

\* env.get_template(name + J2SUFFIX) finds the template
TemplateExists(t) == t \in PackagedTemplates

\* the '-dmvpn' template has no usable '<base>-eigrp' companion
CompanionError(t) ==
    \/ t[2] # "-dmvpn"
    \/ ~TemplateExists(Tpl(t[1], "-eigrp"))

\* -T values tried: packaged ones and one that is not packaged
Templates ==
    { Tpl("iosv", ""), Tpl("iosv", "-dmvpn"), Tpl("lab", "-dmvpn"),
      Tpl("nosuch", "") }

\* --distance: the default and a larger one
DefaultDistance == 200
Distances == {DefaultDistance, 500}

\* --mgmt-slot: the default and the slots the data interfaces use
DefaultMgmtSlot == 5
MgmtSlots == {0, 1, DefaultMgmtSlot}

\* --pki, --mgmt, --mgmt-bridge, --mgmt-slot, --device-template, --distance:
\* every combination of the first five at the default distance, and the
\* larger distance with and without the management network
DocOptions ==
    { [pki_enabled |-> p, enable_mgmt |-> m[1], mgmt_bridge |-> m[2],
       mgmt_slot |-> m[3], dev_template |-> dv, distance |-> DefaultDistance] :
      p \in BOOLEAN,
      m \in {<< FALSE, FALSE, DefaultMgmtSlot >>}
             \cup ({TRUE} \X BOOLEAN \X MgmtSlots),
      dv \in {"iosv", "csr1000v"} }
    \cup
    { [pki_enabled |-> FALSE, enable_mgmt |-> m, mgmt_bridge |-> FALSE,
       mgmt_slot |-> DefaultMgmtSlot, dev_template |-> "iosv", distance |-> d] :
      m \in BOOLEAN, d \in Distances \ {DefaultDistance} }

PlainArgs ==
    { [mode |-> m, offline |-> o, nodes |-> n, flat_group_size |-> g,
       dmvpn_underlay |-> "flat", dmvpn_hubs_list |-> {},
       nbma |-> DefaultNbma, tunnel |-> DefaultTunnel,
       pki_enabled |-> FALSE, enable_mgmt |-> FALSE, mgmt_bridge |-> FALSE,
       mgmt_slot |-> DefaultMgmtSlot, dev_template |-> "iosv",
       distance |-> DefaultDistance, overwrite |-> FALSE, start_lab |-> FALSE,
       template |-> Tpl("iosv", "")] :
      m \in {"simple", "flat", "flat-pair"}, o \in BOOLEAN,
      n \in NodeCounts, g \in GroupSizes }

DmvpnArgs ==
    { [mode |-> "dmvpn", offline |-> o, nodes |-> n, flat_group_size |-> g,
       dmvpn_underlay |-> u, dmvpn_hubs_list |-> h,
       nbma |-> c[1], tunnel |-> c[2],
       pki_enabled |-> FALSE, enable_mgmt |-> FALSE, mgmt_bridge |-> FALSE,
       mgmt_slot |-> DefaultMgmtSlot, dev_template |-> "iosv",
       distance |-> DefaultDistance, overwrite |-> FALSE, start_lab |-> FALSE,
       template |-> Tpl("iosv", "-dmvpn")] :
      o \in BOOLEAN, n \in SmallNodeCounts, g \in GroupSizes,
      u \in {"flat", "flat-pair"}, h \in HubLists, c \in DmvpnCidrs }

LargeDmvpnArgs ==
    { [mode |-> "dmvpn", offline |-> o, nodes |-> n, flat_group_size |-> g,
       dmvpn_underlay |-> u, dmvpn_hubs_list |-> h,
       nbma |-> DefaultNbma, tunnel |-> DefaultTunnel,
       pki_enabled |-> FALSE, enable_mgmt |-> FALSE, mgmt_bridge |-> FALSE,
       mgmt_slot |-> DefaultMgmtSlot, dev_template |-> "iosv",
       distance |-> DefaultDistance, overwrite |-> FALSE, start_lab |-> FALSE,
       template |-> Tpl("iosv", "-dmvpn")] :
      o \in BOOLEAN, n \in LargeNodeCounts, g \in GroupSizes,
      u \in {"flat", "flat-pair"}, h \in {{}, {1}} }

\* Renderer.loopbacks is read by the sequential build only
UsesLoopbacks(a) == a.mode = "simple" /\ ~a.offline

\* a point-to-point generator is read by the sequential build and by the
\* flat-pair builds of both backends
UsesP2p(a) ==
    \/ a.mode = "simple" /\ ~a.offline
    \/ a.mode = "flat-pair"
    \/ a.mode = "dmvpn" /\ a.dmvpn_underlay = "flat-pair"

\* a command line with the options of o in place of the defaults
WithOptions(a, o) ==
    [a EXCEPT !.pki_enabled = o.pki_enabled, !.enable_mgmt = o.enable_mgmt,
              !.mgmt_bridge = o.mgmt_bridge, !.mgmt_slot = o.mgmt_slot,
              !.dev_template = o.dev_template, !.distance = o.distance]

\* a run is a command line, the configuration loaded for it and the state of
\* the output path.
\* the command lines explored with the options at their defaults (a DMVPN
\* run names a '-dmvpn' template) and the configuration loaded
\* for each: a small pool is given to the builds that read it, the
\* sequential build is run with the small node counts
BaseRuns ==
    { r \in (PlainArgs \cup DmvpnArgs \cup LargeDmvpnArgs) \X Configs
             \X {"absent"} :
        /\ r[2] = SmallLoopbacks => UsesLoopbacks(r[1])
        /\ r[2] = SmallP2p => UsesP2p(r[1]) /\ r[1].nodes \in SmallNodeCounts
        /\ UsesLoopbacks(r[1]) => r[1].nodes \in SmallNodeCounts }

\* the command lines the options are varied on
PlainBase == {a \in PlainArgs \cup LargeDmvpnArgs \cup DmvpnArgs :
                 /\ a.dmvpn_hubs_list = {}
                 /\ a.nbma = DefaultNbma /\ a.tunnel = DefaultTunnel}

\* offline runs with the document options varied (mode simple is written
\* by the writer of mode flat)
DocRuns ==
    { << WithOptions(a, o), DefaultConfig, "absent" >> :
         a \in {b \in PlainBase : b.offline /\ b.mode # "simple"},
         o \in DocOptions }

\* offline runs onto a path that holds a file already, and with --overwrite
FileRuns ==
    { << [a EXCEPT !.overwrite = w[1]], DefaultConfig, w[2] >> :
         a \in {b \in PlainBase : b.offline /\ b.nodes \in SmallNodeCounts},
         w \in {<< FALSE, "old" >>, << TRUE, "old" >>, << TRUE, "absent" >>} }

\* runs of both backends with the template varied
TemplateRuns ==
    { << [a EXCEPT !.template = t], DefaultConfig, "absent" >> :
         a \in {b \in PlainBase : b.nodes \in SmallNodeCounts
                                    /\ b.flat_group_size \in 1..MaxGroup},
         t \in Templates }

\* live runs with --start
StartRuns ==
    { << [a EXCEPT !.start_lab = TRUE], DefaultConfig, "absent" >> :
         a \in {b \in PlainBase : ~b.offline /\ b.nodes \in SmallNodeCounts} }

\* live runs against a controller on which one remote call may fail
FaultRuns ==
    { << a, DefaultConfig, "absent" >> :
         a \in {b \in PlainBase : /\ ~b.offline /\ b.nodes \in SmallNodeCounts
                                   /\ b.flat_group_size \in 1..MaxGroup
                                   /\ b.mode \in {"flat", "dmvpn"}} }

\* offline DMVPN runs with --pki on every pair of DMVPN networks
PkiRuns ==
    { << [a EXCEPT !.pki_enabled = TRUE], DefaultConfig, "absent" >> :
         a \in {b \in DmvpnArgs : /\ b.offline
                                  /\ b.flat_group_size \in 1..MaxGroup
                                  /\ b.dmvpn_hubs_list \in {{}, {1}}} }

VARIABLES
    args,          \* the parsed command line (argparse Namespace)
    cfg,           \* the loaded Config
    remote,        \* the controller: "up", "flaky" (a call may fail), "failed"
    pc,            \* position of the run
    retval,        \* "running", "ok" (0), "error" (1), "usage" (2), "crash"
    lab_created,   \* a lab exists on the controller
    nodes,         \* nodes created (live) or synthesized (offline)
    links,         \* links created (live) or synthesized (offline)
    ifaces,        \* offline: the interface slots each node declares
    configs,       \* label -> the context its configuration was rendered from
    file_written,  \* the offline document has been written
    i,             \* loop index of the running phase
    loopbacks,     \* cursor of Renderer.loopbacks
    p2pnets,       \* cursor of Renderer.p2pnets / the local p2p_iter
    alloc_lo,      \* loopback subnets returned so far
    alloc_p2p,     \* point-to-point subnets returned so far
    pair_ips,      \* odd router -> its two pair-link addresses
    hub_info,      \* the hub_info list
    routers,       \* DMVPN: the TopogenNode of each router built
    prev_iface,    \* sequential build: the address handed to the next router
    ended_at,      \* the position at which the run ended
    doc,           \* offline: the nodes and links sections of the document
    outfile,       \* the file at the --offline-yaml path
    start_thread,  \* the background thread that asks the controller to start
    fx             \* operands and results of the pure functions checked alone

vars == << args, cfg, remote, pc, retval, lab_created, nodes, links, ifaces, configs,
           file_written, i, loopbacks, p2pnets, alloc_lo, alloc_p2p, pair_ips,
           hub_info, routers, prev_iface, ended_at, doc, outfile, start_thread,
           fx >>

runVars == << args, cfg, remote, pc, retval, lab_created, nodes, links, ifaces, configs,
              file_written, i, loopbacks, p2pnets, alloc_lo, alloc_p2p, pair_ips,
              hub_info, routers, prev_iface, ended_at, doc, outfile,
              start_thread >>

runVarsButPc == << args, cfg, remote, retval, lab_created, nodes, links, ifaces, configs,
                   file_written, i, loopbacks, p2pnets, alloc_lo, alloc_p2p,
                   pair_ips, hub_info, routers, prev_iface, ended_at, doc,
                   outfile, start_thread >>

\* an offline document with nothing emitted yet
NoDoc == [nodes |-> << >>, links |-> << >>]

NoFx == [a |-> 0, b |-> 0, live_a |-> << >>, live_b |-> << >>,
         off_a |-> << >>, off_b |-> << >>]

InitRun(runs, controller) ==
    /\ \E r \in runs : args = r[1] /\ cfg = r[2] /\ outfile = r[3]
    /\ remote = controller
    /\ pc = "main"
    /\ retval = "running"
    /\ lab_created = FALSE
    /\ nodes = {}
    /\ links = {}
    /\ ifaces = << >>
    /\ configs = << >>
    /\ file_written = FALSE
    /\ i = 0
    /\ loopbacks = 0
    /\ p2pnets = 0
    /\ alloc_lo = << >>
    /\ alloc_p2p = << >>
    /\ pair_ips = << >>
    /\ hub_info = << >>
    /\ routers = << >>
    /\ prev_iface = NoAddr
    /\ ended_at = "none"
    /\ doc = NoDoc
    /\ start_thread = "none"
    /\ fx = NoFx

Init ==
    \/ InitRun(BaseRuns, "up")
    \/ InitRun(DocRuns, "up")
    \/ InitRun(FileRuns, "up")
    \/ InitRun(TemplateRuns, "up")
    \/ InitRun(StartRuns, "up")
    \/ InitRun(FaultRuns, "flaky")
    \/ InitRun(PkiRuns, "up")

(***************************************************************************)
(* Ends of a run.                                                          *)
(***************************************************************************)
\* the state left by a step that ends the run with the given status
Finish(status) ==
    /\ pc' = "done"
    /\ retval' = status
    /\ ended_at' = pc

\* a step that fails before it changed anything
Abort(status) ==
    /\ Finish(status)
    /\ UNCHANGED << args, cfg, remote, lab_created, nodes, links, ifaces, configs,
                    file_written, i, loopbacks, p2pnets, alloc_lo, alloc_p2p,
                    pair_ips, hub_info, routers, prev_iface, doc, outfile,
                    start_thread, fx >>

(***************************************************************************)
(* main()                                                                  *)
(***************************************************************************)
MaxOddRnum(total) == IF total % 2 = 1 THEN total ELSE total - 1

\* main.py 590-600: flat-pair underlay without --dmvpn-hubs
DefaultHubs(a) ==
    IF a.mode = "dmvpn" /\ a.dmvpn_underlay = "flat-pair" /\ a.dmvpn_hubs_list = {}
    THEN {h \in {1, 3, 5} : h <= MaxOddRnum(a.nodes)}
    ELSE a.dmvpn_hubs_list

HubsOutOfRange_LowerOnly(a) == {h \in a.dmvpn_hubs_list : h < 1}

\* main.py 609-631: hub numbers that do not exist
HubsOutOfRange(a) ==
    IF a.dmvpn_underlay = "flat-pair"
    THEN {h \in a.dmvpn_hubs_list : h < 1 \/ h > MaxOddRnum(a.nodes)}
    ELSE {h \in a.dmvpn_hubs_list : h < 1 \/ h > a.nodes}

\* main.py 632-640
EvenHubs(a) == {h \in a.dmvpn_hubs_list : h % 2 = 0}

\* main.py 602-653: the outcome of the argument checks
MainChecks(a) ==
    IF a.nodes > LICENSE_SOFT_CAP THEN "usage"
    ELSE IF a.mode = "dmvpn" /\ a.dmvpn_hubs_list # {} /\ HubsOutOfRange(a) # {}
    THEN "usage"
    ELSE IF a.mode = "dmvpn" /\ a.dmvpn_underlay = "flat-pair"
            /\ a.dmvpn_hubs_list # {} /\ EvenHubs(a) # {}
    THEN "usage"
    ELSE IF a.mode = "flat" /\ a.flat_group_size + 1 > MAX_SW_PORTS THEN "usage"
    ELSE IF a.mode = "flat" /\ a.flat_group_size = 0 THEN "crash"
    ELSE IF a.mode = "flat" /\ Ceil(a.nodes, a.flat_group_size) > MAX_SW_PORTS
    THEN "usage"
    ELSE "ok"

\* main.py 721-756: the function main() hands the run to
Dispatch(a) ==
    IF a.offline
    THEN IF a.mode = "dmvpn"
         THEN IF a.dmvpn_underlay = "flat-pair"
              THEN "offline_dmvpn_flat_pair_yaml"
              ELSE "offline_dmvpn_yaml"
         ELSE IF a.mode = "flat-pair" THEN "offline_flat_pair_yaml"
         ELSE "offline_flat_yaml"
    ELSE "Renderer"

main ==
    /\ pc = "main"
    /\ LET a == [args EXCEPT !.dmvpn_hubs_list = DefaultHubs(args)]
           outcome == MainChecks(a)
       IN  IF outcome = "ok"
           THEN /\ args' = a
                /\ pc' = Dispatch(a)
                /\ UNCHANGED << cfg, remote, retval, ended_at, lab_created, nodes, links, ifaces,
                                configs, file_written, i, loopbacks, p2pnets,
                                alloc_lo, alloc_p2p, pair_ips, hub_info, routers, prev_iface, doc, outfile,
                    start_thread, fx >>
           ELSE Abort(outcome)

(***************************************************************************)
(* Renderer.__init__ and the helpers of the live backend                   *)
(***************************************************************************)
\* the function main() calls on the Renderer it built
LiveEntry(a) ==
    IF a.mode = "simple" THEN "render_node_sequence"
    ELSE IF a.mode = "flat" THEN "render_flat_network"
    ELSE IF a.mode = "dmvpn" THEN "render_dmvpn_network"
    ELSE "render_flat_pair_network"

SkipFirst_Nothing(cursor) == cursor

\* render.py 564: next(self.loopbacks) drops the first /32 of the generator
SkipFirst(cursor) == cursor + 1

\* render.py 502-572: the template is loaded, the lab is created, the loopback cursor skips the first
\* /32 of its pool, the point-to-point cursor starts at the first /30
RendererInit ==
    /\ pc = "Renderer"
    /\ IF ~TemplateExists(args.template)
       THEN Abort("error")
       ELSE /\ lab_created' = TRUE
            /\ loopbacks' = SkipFirst(0)
            /\ p2pnets' = 0
            /\ pc' = LiveEntry(args)
            /\ UNCHANGED << args, cfg, remote, retval, ended_at, nodes, links, ifaces,
                            configs, file_written, i, alloc_lo, alloc_p2p,
                            pair_ips, hub_info, routers, prev_iface, doc,
                            outfile, start_thread, fx >>

\* Renderer.validate_flat_topology: "error" or the number of access switches
ValidateError(total_nodes, group_size) ==
    \/ group_size < 1
    \/ group_size + 1 > 32
    \/ Ceil(total_nodes, group_size) > 32

validate_flat_topology(total_nodes, group_size) == Ceil(total_nodes, group_size)

\* the slots of a node that some link uses
UsedSlots(ls, label) == {e[2] : e \in {e \in UNION ls : e[1] = label}}

new_interface_reuse(ls, label) ==
    IF UsedSlots(ls, label) = {} THEN 0
    ELSE CHOOSE k \in UsedSlots(ls, label) : TRUE

\* Renderer.new_interface: the first interface of the node without a link
new_interface(ls, label) ==
    CHOOSE k \in 0..Cardinality(ls) :
        /\ k \notin UsedSlots(ls, label)
        /\ \A j \in 0..(k - 1) : j \in UsedSlots(ls, label)

\* Lab.create_link between two interfaces
Link(n1, s1, n2, s2) == { << n1, s1 >>, << n2, s2 >> }

NodeRec(label, def) == [label |-> label, def |-> def]

R(n) == << "R", n >>
SW(n) == << "SW", n >>
SWnbma(n) == << "SWnbma", n >>

\* the context a router configuration is rendered from
Ctx(loopback, addrs, is_hub, hubs) ==
    [loopback |-> loopback, addrs |-> addrs, is_hub |-> is_hub, hub_info |-> hubs]

(***************************************************************************)
(* Flat addressing                                                         *)
(***************************************************************************)
G_BASE == Ip(10, 10, 0, 0)
L_BASE == Ip(10, 20, 0, 0)

\* render.py 4172-4179 (live): "{base}.{hi}.{lo}"
FlatAddrLive(base, ridx) ==
    LET hi == And0xFF(ridx \div 256)
        lo == ridx % 256
    IN  base + hi * 256 + lo

\* render.py 2960-2965 (offline)
addr_parts(n) ==
    LET ridx == n
        hi == And0xFF(ridx \div 256)
        lo == ridx % 256
    IN  << hi, lo >>

FlatAddrOffline(base, n) ==
    LET p == addr_parts(n) IN base + p[1] * 256 + p[2]

(***************************************************************************)
(* render_flat_network (live)                                              *)
(***************************************************************************)
\* render.py 4092-4094
FlatValidate ==
    /\ pc = "render_flat_network"
    /\ LET group == Max(1, args.flat_group_size)
       IN  IF ValidateError(args.nodes, group)
           THEN Abort("error")
           ELSE /\ pc' = "flat_core"
                /\ UNCHANGED << args, cfg, remote, retval, ended_at, lab_created, nodes, links, ifaces,
                                configs, file_written, i, loopbacks, p2pnets,
                                alloc_lo, alloc_p2p, pair_ips, hub_info, routers, prev_iface, doc, outfile,
                    start_thread, fx >>

\* render.py 4107
FlatCreateCore ==
    /\ pc = "flat_core"
    /\ nodes' = nodes \cup {NodeRec(SW(0), "unmanaged_switch")}
    /\ pc' = "flat_switches"
    /\ i' = 0
    /\ UNCHANGED << args, cfg, remote, retval, ended_at, lab_created, links, ifaces, configs,
                    file_written, loopbacks, p2pnets, alloc_lo, alloc_p2p,
                    pair_ips, hub_info, routers, prev_iface, doc, outfile,
                    start_thread, fx >>

\* one round of a "create the access switches" loop: the switch and its uplink
CreateAccessSwitch(core, sw) ==
    /\ nodes' = nodes \cup {NodeRec(sw, "unmanaged_switch")}
    /\ links' = links \cup {Link(core, new_interface(links, core),
                                 sw, new_interface(links, sw))}

\* render.py 4130-4138
FlatCreateSwitch ==
    /\ pc = "flat_switches"
    /\ LET group == Max(1, args.flat_group_size)
           num_sw == validate_flat_topology(args.nodes, group)
       IN  IF i < num_sw
           THEN /\ CreateAccessSwitch(SW(0), SW(i + 1))
                /\ i' = i + 1
                /\ pc' = pc
                /\ UNCHANGED configs
           ELSE /\ pc' = "flat_routers"
                /\ i' = 0
                /\ UNCHANGED << nodes, links, configs >>
    /\ UNCHANGED << args, cfg, remote, retval, ended_at, lab_created, ifaces, file_written,
                    loopbacks, p2pnets, alloc_lo, alloc_p2p, pair_ips, hub_info,
                    routers, prev_iface, doc, outfile,
                    start_thread, fx >>

\* render.py 4140-4218: router idx+1, its link to its access switch, its
\* configuration
FlatCreateRouter ==
    /\ pc = "flat_routers"
    /\ LET group == Max(1, args.flat_group_size)
           idx == i
           sw_index == idx \div group
           ridx == idx + 1
           g_addr == FlatAddrLive(G_BASE, ridx)
           l_addr == FlatAddrLive(L_BASE, ridx)
       IN  IF idx < args.nodes
           THEN /\ nodes' = nodes \cup {NodeRec(R(idx + 1), "router")}
                /\ links' = links \cup
                      {Link(R(idx + 1), 0, SW(sw_index + 1),
                            new_interface(links, SW(sw_index + 1)))}
                /\ configs' = configs @@
                      (R(idx + 1) :> Ctx(l_addr, << g_addr >>, FALSE, << >>))
                /\ i' = i + 1
                /\ pc' = pc
           ELSE /\ pc' = "flat_finish"
                /\ i' = 0
                /\ UNCHANGED << nodes, links, configs >>
    /\ UNCHANGED << args, cfg, remote, retval, ended_at, lab_created, ifaces, file_written,
                    loopbacks, p2pnets, alloc_lo, alloc_p2p, pair_ips, hub_info,
                    routers, prev_iface, doc, outfile,
                    start_thread, fx >>

\* render.py 4140-4218 with a failing remote call: create_node turns the
\* HTTPError into a TopogenError; create_link and the assignment of the
\* configuration are not guarded, their exception leaves main uncaught
FlatCreateRouterFails ==
    /\ pc = "flat_routers"
    /\ remote = "flaky"
    /\ i < args.nodes
    /\ remote' = "failed"
    /\ LET group == Max(1, args.flat_group_size)
           sw == SW((i \div group) + 1)
       IN  \/ /\ Finish("error")
              /\ UNCHANGED << nodes, links >>
           \/ /\ Finish("crash")
              /\ nodes' = nodes \cup {NodeRec(R(i + 1), "router")}
              /\ UNCHANGED links
           \/ /\ Finish("crash")
              /\ nodes' = nodes \cup {NodeRec(R(i + 1), "router")}
              /\ links' = links \cup
                    {Link(R(i + 1), 0, sw, new_interface(links, sw))}
    /\ UNCHANGED << args, cfg, lab_created, ifaces, configs, file_written, i,
                    loopbacks, p2pnets, alloc_lo, alloc_p2p, pair_ips, hub_info,
                    routers, prev_iface, doc, outfile, start_thread, fx >>

\* render.py 212-228: without --start the builder returns 0; with it the
\* daemon thread is started and the builder sleeps
_start_lab_in_background ==
    IF args.start_lab
    THEN /\ start_thread' = "running"
         /\ pc' = "start_sleep"
         /\ UNCHANGED << retval, ended_at >>
    ELSE /\ Finish("ok")
         /\ UNCHANGED start_thread

\* render.py 4301-4336
FlatFinish ==
    /\ pc = "flat_finish"
    /\ _start_lab_in_background
    /\ UNCHANGED << args, cfg, remote, lab_created, nodes, links, ifaces, configs,
                    file_written, i, loopbacks, p2pnets, alloc_lo, alloc_p2p,
                    pair_ips, hub_info, routers, prev_iface, doc, outfile, fx >>

\* render.py 218-222: the thread's lab.start() returns or raises; a raise
\* is logged inside the thread
StartThreadRuns ==
    /\ start_thread = "running"
    /\ pc = "start_sleep"
    /\ start_thread' \in {"started", "failed"}
    /\ UNCHANGED << args, cfg, remote, pc, retval, ended_at, lab_created, nodes,
                    links, ifaces, configs, file_written, i, loopbacks, p2pnets,
                    alloc_lo, alloc_p2p, pair_ips, hub_info, routers, prev_iface,
                    doc, outfile, fx >>

\* a return that joins the thread first
StartSleepReturns_Join ==
    /\ pc = "start_sleep"
    /\ start_thread # "running"
    /\ Abort("ok")

\* render.py 227-228: the sleep of 3 s ends and the builder returns 0,
\* whatever the thread has done; a thread still running ends with the
\* process
StartSleepReturns ==
    /\ pc = "start_sleep"
    /\ Abort("ok")

(***************************************************************************)
(* offline_flat_yaml                                                       *)
(***************************************************************************)
\* the run moves on to the given position and changes nothing else
Goto(next) ==
    /\ pc' = next
    /\ UNCHANGED << args, cfg, remote, retval, ended_at, lab_created, nodes, links, ifaces, configs,
                    file_written, i, loopbacks, p2pnets, alloc_lo, alloc_p2p,
                    pair_ips, hub_info, routers, prev_iface, doc, outfile,
                    start_thread, fx >>

(***************************************************************************)
(* The offline document: node entries, interface entries, link entries     *)
(***************************************************************************)
SWoob(n) == << "SWoob", n >>
EXT_CONN_MGMT == << "ext-conn-mgmt", 0 >>
CA_ROOT == << "CA-ROOT", 0 >>

\* the coordinate ceiling of the platform
MAX_COORD == 15000

\* an interface entry: "- id: i<p>" / "slot: <p>"
Iface(p) == [id |-> p, slot |-> p]

\* a port list that stops one entry early
Ports_OneShort(first, count) ==
    [k \in 1..Max(0, count - 1) |-> Iface(first + k - 1)]

\* "for p in range(count)": the entries of ports first .. first+count-1
Ports(first, count) == [k \in 1..Max(0, count) |-> Iface(first + k - 1)]

\* a node entry; its id is given when the entry is numbered
DocNode(label, def, x, y, interfaces) ==
    [id |-> 0, label |-> label, node_definition |-> def, x |-> x, y |-> y,
     interfaces |-> interfaces]

\* a link entry between two labelled nodes; node ids and the link id are
\* given when the entry is numbered
DocLink(l1, i1, l2, i2) ==
    [id |-> 0, n1 |-> l1, i1 |-> i1, n2 |-> l2, i2 |-> i2]

\* "node_ids[label] = f'n{nid}'; nid += 1": entries are numbered from 0 in
\* the order they are emitted
Numbered(entries) == [k \in DOMAIN entries |-> [entries[k] EXCEPT !.id = k - 1]]

\* the node_ids dictionary: a label maps to the id assigned last
node_ids(ns, label) ==
    ns[CHOOSE k \in DOMAIN ns :
          /\ ns[k].label = label
          /\ \A j \in DOMAIN ns : ns[j].label = label => j <= k].id

\* "n1: {node_ids[label]}": link entries numbered from 0, their ends
\* resolved through node_ids
NumberedLinks(ls, ns) ==
    [k \in DOMAIN ls |->
        [ls[k] EXCEPT !.id = k - 1,
                      !.n1 = node_ids(ns, ls[k].n1),
                      !.n2 = node_ids(ns, ls[k].n2)]]

\* the interface id of the management interface: slot - 1 on csr1000v
router_mgmt_iface_id(a, dev_def) ==
    IF dev_def = "csr1000v" THEN a.mgmt_slot - 1 ELSE a.mgmt_slot

\* the management interface entry of a router, if --mgmt is given
MgmtIface(a, dev_def) ==
    IF a.enable_mgmt THEN << Iface(router_mgmt_iface_id(a, dev_def)) >> ELSE << >>

\* render.py 3086-3149: the connector (with --mgmt-bridge), the management
\* core SWoob0 and the management access switches
OobSwitchNodes(a, num_oob_sw, oob_per_sw_counts, swoob0_port_count) ==
    LET port_offset == IF a.mgmt_bridge THEN 1 ELSE 0
    IN  (IF a.mgmt_bridge
         THEN << DocNode(EXT_CONN_MGMT, "external_connector", -440, 0,
                         << Iface(0) >>) >>
         ELSE << >>)
        \o << DocNode(SWoob(0), "unmanaged_switch", -200, 0,
                      (IF a.mgmt_bridge THEN << Iface(0) >> ELSE << >>)
                      \o Ports(port_offset, swoob0_port_count)) >>
        \o [k \in 1..num_oob_sw |->
              DocNode(SWoob(k), "unmanaged_switch",
                      -200 - k * a.distance, k * a.distance,
                      Ports(0, 1 + oob_per_sw_counts[k]))]

\* the port a router gets on its switch: the attached routers before it on
\* the same switch have taken ports 1, 2, ... (per_sw_next_port starts at 1)
NextPortOf(sw_of, idx, attached) ==
    1 + Cardinality({j \in attached : j < idx /\ sw_of[j] = sw_of[idx]})

NextPort(sw_of, idx) == NextPortOf(sw_of, idx, DOMAIN sw_of)

\* render.py 3414-3466: connector link, management uplinks, one management
\* link per router, and the CA management link where the writer emits it
OobLinks(a, num_oob_sw, total, oob_of, dev_def, ca_link) ==
    LET port_offset == IF a.mgmt_bridge THEN 1 ELSE 0
    IN  (IF a.mgmt_bridge
         THEN << DocLink(EXT_CONN_MGMT, 0, SWoob(0), 0) >>
         ELSE << >>)
        \o [k \in 1..num_oob_sw |->
              DocLink(SWoob(k), 0, SWoob(0), k - 1 + port_offset)]
        \o [n \in 1..total |->
              DocLink(R(n), router_mgmt_iface_id(a, dev_def),
                      SWoob(oob_of[n - 1] + 1), NextPort(oob_of, n - 1))]
        \o (IF ca_link
            THEN << DocLink(CA_ROOT, a.mgmt_slot - 1, SWoob(0),
                            port_offset + num_oob_sw) >>
            ELSE << >>)

\* the CA-ROOT node entry: always a csr1000v, slot 0 and, with --mgmt, the
\* management slot less one
CaNode(a, x, y) ==
    DocNode(CA_ROOT, "csr1000v", x, y,
            << Iface(0) >>
            \o (IF a.enable_mgmt THEN << Iface(a.mgmt_slot - 1) >> ELSE << >>))

\* render.py 2035, 2676: CA-ROOT takes the address below the broadcast
\* address of the NBMA network
ca_nbma_ip(nbma_net) == BroadcastAddress(nbma_net) - 1

\* render.py 2032-2134, 2670-2794: the CA-ROOT entry of the DMVPN documents,
\* with the NBMA address its configuration is rendered with
DmvpnCaNode(a) ==
    LET ca == CaNode(a, -400, 200)
    IN  [id |-> ca.id, label |-> ca.label, node_definition |-> ca.node_definition,
         x |-> ca.x, y |-> ca.y, interfaces |-> ca.interfaces,
         nbma_ip |-> ca_nbma_ip(a.nbma)]

\* render.py 2941-2950
OfflineFlatValidate ==
    /\ pc = "offline_flat_yaml"
    /\ LET group == Max(1, args.flat_group_size)
       IN  IF ~TemplateExists(args.template)
           THEN Abort("error")
           ELSE IF ValidateError(args.nodes, group)
           THEN Abort("error")
           ELSE Goto("offline_flat_nodes")

\* render.py 3033-3037: routers per access switch (switch k is SW<k>)
per_sw_counts(num_sw, group, total) ==
    [k \in 1..num_sw |->
        LET start == (k - 1) * group + 1
            end == Min(k * group, total)
        IN  Max(0, end - start + 1)]

\* render.py 3021-3373: the node entries of the flat document, in the order
\* they are emitted
OfflineFlatDocNodes(a) ==
    LET total == a.nodes
        group == Max(1, a.flat_group_size)
        num_sw == validate_flat_topology(total, group)
        counts == per_sw_counts(num_sw, group, total)
        core_if_count == num_sw + (IF a.pki_enabled THEN 1 ELSE 0)
        num_oob_sw == Ceil(total, group)
        swoob0_port_count == num_oob_sw + (IF a.pki_enabled THEN 1 ELSE 0)
        dev_def == a.dev_template
    IN  Numbered(
          << DocNode(SW(0), "unmanaged_switch", 0, 0, Ports(0, core_if_count)) >>
          \o [k \in 1..num_sw |->
                DocNode(SW(k), "unmanaged_switch", k * a.distance * 3, 0,
                        Ports(0, 1 + counts[k]))]
          \o (IF a.enable_mgmt
              THEN OobSwitchNodes(a, num_oob_sw,
                                  per_sw_counts(num_oob_sw, group, total),
                                  swoob0_port_count)
              ELSE << >>)
          \o [n \in 1..total |->
                DocNode(R(n), dev_def,
                        ((n - 1) \div group + 1) * a.distance * 3,
                        (((n - 1) % group) + 1) * a.distance,
                        << Iface(0) >> \o MgmtIface(a, dev_def))]
          \o (IF a.pki_enabled
              THEN << CaNode(a, -(a.distance * 3), 0) >>
              ELSE << >>))

\* render.py 3375-3466: the link entries of the flat document
OfflineFlatDocLinks(a, ns) ==
    LET total == a.nodes
        group == Max(1, a.flat_group_size)
        num_sw == validate_flat_topology(total, group)
        sw_of == [idx \in 0..(total - 1) |-> idx \div group]
    IN  NumberedLinks(
          [k \in 1..num_sw |-> DocLink(SW(k), 0, SW(0), k - 1)]
          \o [n \in 1..total |->
                DocLink(R(n), 0, SW(sw_of[n - 1] + 1), NextPort(sw_of, n - 1))]
          \o (IF a.pki_enabled
              THEN << DocLink(CA_ROOT, 0, SW(0), num_sw) >>
              ELSE << >>)
          \o (IF a.enable_mgmt
              THEN OobLinks(a, Ceil(total, group), total, sw_of,
                            a.dev_template, a.pki_enabled)
              ELSE << >>),
          ns)

\* render.py 3021-3373: the nodes section (core, access switches, routers)
OfflineFlatNodes ==
    /\ pc = "offline_flat_nodes"
    /\ LET total == args.nodes
           group == Max(1, args.flat_group_size)
           num_sw == validate_flat_topology(total, group)
           counts == per_sw_counts(num_sw, group, total)
           core_if_count == num_sw
           switches == {SW(k) : k \in 1..num_sw}
           rtrs == {R(n) : n \in 1..total}
       IN  /\ nodes' = {NodeRec(SW(0), "unmanaged_switch")}
                       \cup {NodeRec(l, "unmanaged_switch") : l \in switches}
                       \cup {NodeRec(l, "router") : l \in rtrs}
           /\ ifaces' = (SW(0) :> 0..(core_if_count - 1))
                        @@ [l \in switches |-> 0..counts[l[2]]]
                        @@ [l \in rtrs |-> {0}]
           /\ configs' = [l \in rtrs |->
                            Ctx(FlatAddrOffline(L_BASE, l[2]),
                                << FlatAddrOffline(G_BASE, l[2]) >>, FALSE, << >>)]
    /\ doc' = [doc EXCEPT !.nodes = OfflineFlatDocNodes(args)]
    /\ pc' = "offline_flat_links"
    /\ UNCHANGED << args, cfg, remote, retval, ended_at, lab_created, links, file_written, i,
                    loopbacks, p2pnets, alloc_lo, alloc_p2p, pair_ips, hub_info,
                    routers, prev_iface, outfile,
                    start_thread, fx >>

\* render.py 3379-3386: access switch k, port 0, to core port k-1
UplinkLinks(core, sw_prefix, num_sw) ==
    {Link(<< sw_prefix, k >>, 0, core, k - 1) : k \in 1..num_sw}

\* render.py 3388-3401: every router to the next free port of its switch
RECURSIVE OfflineFlatRouterLinks(_, _, _, _, _)
OfflineFlatRouterLinks(idx, total, group, per_sw_next_port, acc) ==
    IF idx >= total THEN acc
    ELSE LET n == idx + 1
             sw_index == idx \div group + 1
             acc_port == per_sw_next_port[sw_index]
         IN  OfflineFlatRouterLinks(
                 idx + 1, total, group,
                 [per_sw_next_port EXCEPT ![sw_index] = @ + 1],
                 acc \cup {Link(R(n), 0, SW(sw_index), acc_port)})

\* render.py 3375-3401: the links section
OfflineFlatLinks ==
    /\ pc = "offline_flat_links"
    /\ LET total == args.nodes
           group == Max(1, args.flat_group_size)
           num_sw == validate_flat_topology(total, group)
       IN  links' = UplinkLinks(SW(0), "SW", num_sw)
                    \cup OfflineFlatRouterLinks(0, total, group,
                                                [k \in 1..num_sw |-> 1], {})
    /\ doc' = [doc EXCEPT !.links = OfflineFlatDocLinks(args, doc.nodes)]
    /\ pc' = "offline_flat_write"
    /\ UNCHANGED << args, cfg, remote, retval, ended_at, lab_created, nodes, ifaces, configs,
                    file_written, i, loopbacks, p2pnets, alloc_lo, alloc_p2p,
                    pair_ips, hub_info, routers, prev_iface, outfile,
                    start_thread, fx >>

\* a writer that replaces an existing file without looking at --overwrite
WriteOutfile_Clobber ==
    /\ file_written' = TRUE
    /\ outfile' = "document"
    /\ Finish("ok")
    /\ UNCHANGED << args, cfg, remote, lab_created, nodes, links, ifaces, configs, i,
                    loopbacks, p2pnets, alloc_lo, alloc_p2p, pair_ips, hub_info,
                    routers, prev_iface, doc, start_thread, fx >>

\* the end of every offline writer: an existing file is refused unless
\* --overwrite is given, else the lines are written with one write_text
WriteOutfile ==
    IF outfile # "absent" /\ ~args.overwrite
    THEN Abort("error")
    ELSE /\ file_written' = TRUE
         /\ outfile' = "document"
         /\ Finish("ok")
         /\ UNCHANGED << args, cfg, remote, lab_created, nodes, links, ifaces, configs,
                         i, loopbacks, p2pnets, alloc_lo, alloc_p2p, pair_ips,
                         hub_info, routers, prev_iface, doc, start_thread, fx >>

\* render.py 3468-3480
OfflineFlatWrite ==
    /\ pc = "offline_flat_write"
    /\ WriteOutfile

(***************************************************************************)
(* Point-to-point addressing of the odd/even pairs                         *)
(***************************************************************************)
\* prefixlen_diff of the /30 generator over a pool
P2pDiff(pool) == IPV4LENGTH - pool.plen - 2

\* n calls of next() on a subnets() generator standing at cursor succeed
CanTake(pool, d, cursor, n) == cursor + n <= SubnetCount(pool, d)

\* the subnets those n calls return, in order
TakeSubnets(pool, d, cursor, n) ==
    [k \in 1..n |-> SubnetAt(pool, d, cursor + k - 1)]

\* render.py 1511-1521: the number of odd routers that have an even partner
PairCount(total) == Cardinality({odd \in 1..total : odd % 2 = 1 /\ odd + 1 <= total})

\* render.py 1515-1521: first host to the odd router, second to the even one
PairIpsOf(subnets) ==
    [odd \in {2 * k - 1 : k \in 1..Len(subnets)} |->
        LET hosts == Hosts(subnets[(odd + 1) \div 2])
        IN  << hosts[1], hosts[2] >>]

\* pair_ips.get(odd, (None, None))[idx]
PairIp(pips, odd, idx) == IF odd \in DOMAIN pips THEN pips[odd][idx] ELSE NoAddr

(***************************************************************************)
(* render_flat_pair_network (live)                                         *)
(***************************************************************************)
\* render.py 1474-1476
FlatPairValidate ==
    /\ pc = "render_flat_pair_network"
    /\ LET group == Max(1, args.flat_group_size)
       IN  IF ValidateError(args.nodes, group)
           THEN Abort("error")
           ELSE Goto("flat_pair_core")

\* render.py 1493
FlatPairCreateCore ==
    /\ pc = "flat_pair_core"
    /\ nodes' = nodes \cup {NodeRec(SW(0), "unmanaged_switch")}
    /\ pc' = "flat_pair_switches"
    /\ i' = 0
    /\ UNCHANGED << args, cfg, remote, retval, ended_at, lab_created, links, ifaces, configs,
                    file_written, loopbacks, p2pnets, alloc_lo, alloc_p2p,
                    pair_ips, hub_info, routers, prev_iface, doc, outfile,
                    start_thread, fx >>

\* render.py 1495-1502
FlatPairCreateSwitch ==
    /\ pc = "flat_pair_switches"
    /\ LET group == Max(1, args.flat_group_size)
           num_sw == validate_flat_topology(args.nodes, group)
       IN  IF i < num_sw
           THEN /\ CreateAccessSwitch(SW(0), SW(i + 1))
                /\ i' = i + 1
                /\ pc' = pc
           ELSE /\ pc' = "flat_pair_ips"
                /\ i' = 0
                /\ UNCHANGED << nodes, links >>
    /\ UNCHANGED << args, cfg, remote, retval, ended_at, lab_created, ifaces, configs, file_written,
                    loopbacks, p2pnets, alloc_lo, alloc_p2p, pair_ips, hub_info,
                    routers, prev_iface, doc, outfile,
                    start_thread, fx >>

\* render.py 1504-1521: a fresh /30 generator over config.p2pnets, one /30 per
\* pair; a generator that runs out raises StopIteration, which nothing catches
FlatPairPairIps ==
    /\ pc = "flat_pair_ips"
    /\ LET pfx == cfg.p2pnets
           n == PairCount(args.nodes)
       IN  IF CanTake(pfx, P2pDiff(pfx), 0, n)
           THEN /\ alloc_p2p' = alloc_p2p \o TakeSubnets(pfx, P2pDiff(pfx), 0, n)
                /\ pair_ips' = PairIpsOf(TakeSubnets(pfx, P2pDiff(pfx), 0, n))
                /\ pc' = "flat_pair_routers"
                /\ UNCHANGED << retval, ended_at >>
           ELSE /\ Finish("crash")
                /\ UNCHANGED << alloc_p2p, pair_ips >>
    /\ UNCHANGED << args, cfg, remote, lab_created, nodes, links, ifaces, configs,
                    file_written, i, loopbacks, p2pnets, alloc_lo, hub_info,
                    routers, prev_iface, doc, outfile,
                    start_thread, fx >>

\* the interface addresses a flat-pair router is configured with
\* (render.py 1546-1566)
FlatPairAddrs(pips, rnum, g_addr) ==
    IF rnum % 2 = 1
    THEN << g_addr, PairIp(pips, rnum, 1) >>
    ELSE << PairIp(pips, rnum - 1, 2) >>

\* render.py 1523-1590: router idx+1 and its configuration; only an odd router
\* is linked to its access switch
FlatPairCreateRouter ==
    /\ pc = "flat_pair_routers"
    /\ LET group == Max(1, args.flat_group_size)
           idx == i
           sw_index == idx \div group
           ridx == idx + 1
           g_addr == FlatAddrLive(G_BASE, ridx)
           l_addr == FlatAddrLive(L_BASE, ridx)
       IN  IF idx < args.nodes
           THEN /\ nodes' = nodes \cup {NodeRec(R(idx + 1), "router")}
                /\ configs' = configs @@
                      (R(idx + 1) :>
                          Ctx(l_addr, FlatPairAddrs(pair_ips, ridx, g_addr),
                              FALSE, << >>))
                /\ links' = IF (idx + 1) % 2 = 1
                            THEN links \cup
                                 {Link(R(idx + 1), 0, SW(sw_index + 1),
                                       new_interface(links, SW(sw_index + 1)))}
                            ELSE links
                /\ i' = i + 1
                /\ pc' = pc
           ELSE /\ pc' = "flat_pair_links"
                /\ i' = 1
                /\ UNCHANGED << nodes, links, configs >>
    /\ UNCHANGED << args, cfg, remote, retval, ended_at, lab_created, ifaces, file_written,
                    loopbacks, p2pnets, alloc_lo, alloc_p2p, pair_ips, hub_info,
                    routers, prev_iface, doc, outfile,
                    start_thread, fx >>

\* render.py 1592-1617: the pairing link of the odd router i, if it has an even
\* partner; after the last odd router the function returns 0
FlatPairCreatePairLink ==
    /\ pc = "flat_pair_links"
    /\ LET odd == i
           even == odd + 1
       IN  IF odd <= args.nodes
           THEN /\ links' = IF even > args.nodes THEN links
                            ELSE links \cup {Link(R(odd), 1, R(even), 0)}
                /\ i' = i + 2
                /\ pc' = pc
                /\ UNCHANGED << retval, ended_at >>
           ELSE /\ Finish("ok")
                /\ UNCHANGED << links, i >>
    /\ UNCHANGED << args, cfg, remote, lab_created, nodes, ifaces, configs, file_written,
                    loopbacks, p2pnets, alloc_lo, alloc_p2p, pair_ips, hub_info,
                    routers, prev_iface, doc, outfile,
                    start_thread, fx >>

(***************************************************************************)
(* offline_flat_pair_yaml                                                  *)
(***************************************************************************)
\* render.py 3493-3502
OfflineFlatPairValidate ==
    /\ pc = "offline_flat_pair_yaml"
    /\ LET group == Max(1, args.flat_group_size)
       IN  IF ~TemplateExists(args.template)
           THEN Abort("error")
           ELSE IF ValidateError(args.nodes, group)
           THEN Abort("error")
           ELSE Goto("offline_flat_pair_nodes")

\* render.py 3560-3957: the node entries of the flat-pair document
OfflineFlatPairDocNodes(a) ==
    LET total == a.nodes
        group == Max(1, a.flat_group_size)
        num_sw == validate_flat_topology(total, group)
        counts == per_sw_counts(num_sw, group, total)
        sw0_port_count == num_sw + (IF a.pki_enabled THEN 1 ELSE 0)
        num_oob_sw == Ceil(total, group)
        swoob0_port_count == num_oob_sw + (IF a.pki_enabled THEN 1 ELSE 0)
        dev_def == a.dev_template
    IN  Numbered(
          << DocNode(SW(0), "unmanaged_switch", 0, 0, Ports(0, sw0_port_count)) >>
          \o [k \in 1..num_sw |->
                DocNode(SW(k), "unmanaged_switch", k * a.distance * 3, 0,
                        Ports(0, 1 + counts[k]))]
          \o (IF a.enable_mgmt
              THEN OobSwitchNodes(a, num_oob_sw,
                                  per_sw_counts(num_oob_sw, group, total),
                                  swoob0_port_count)
              ELSE << >>)
          \o [n \in 1..total |->
                DocNode(R(n), dev_def,
                        ((n - 1) \div group + 1) * a.distance * 3,
                        (((n - 1) % group) + 1) * a.distance,
                        << Iface(0) >>
                        \o (IF n % 2 = 1 THEN << Iface(1) >> ELSE << >>)
                        \o MgmtIface(a, dev_def))]
          \o (IF a.pki_enabled THEN << CaNode(a, -400, 200) >> ELSE << >>))

\* render.py 3960-4066: the link entries of the flat-pair document
OfflineFlatPairDocLinks(a, ns) ==
    LET total == a.nodes
        group == Max(1, a.flat_group_size)
        num_sw == validate_flat_topology(total, group)
        sw_of == [idx \in 0..(total - 1) |-> idx \div group]
        odd_idx == {idx \in 0..(total - 1) : (idx + 1) % 2 = 1}
    IN  NumberedLinks(
          [k \in 1..num_sw |-> DocLink(SW(k), 0, SW(0), k - 1)]
          \o (IF a.pki_enabled
              THEN << DocLink(CA_ROOT, 0, SW(0), num_sw) >>
              ELSE << >>)
          \o [k \in 1..Ceil(total, 2) |->
                DocLink(R(2 * k - 1), 0, SW(sw_of[2 * k - 2] + 1),
                        NextPortOf(sw_of, 2 * k - 2, odd_idx))]
          \o [k \in 1..PairCount(total) |->
                DocLink(R(2 * k - 1), 1, R(2 * k), 0)]
          \o (IF a.enable_mgmt
              THEN OobLinks(a, Ceil(total, group), total, sw_of,
                            a.dev_template, a.pki_enabled)
              ELSE << >>),
          ns)

\* render.py 3559-3830: the nodes section; the /30s of the pairs are taken
\* from a fresh generator over cfg.p2pnets (3688-3704)
OfflineFlatPairNodes ==
    /\ pc = "offline_flat_pair_nodes"
    /\ LET total == args.nodes
           group == Max(1, args.flat_group_size)
           num_sw == validate_flat_topology(total, group)
           counts == per_sw_counts(num_sw, group, total)
           sw0_port_count == num_sw
           switches == {SW(k) : k \in 1..num_sw}
           rtrs == {R(n) : n \in 1..total}
           pfx == cfg.p2pnets
           npairs == PairCount(total)
           pair_ips_off == PairIpsOf(TakeSubnets(pfx, P2pDiff(pfx), 0, npairs))
       IN  IF CanTake(pfx, P2pDiff(pfx), 0, npairs)
           THEN /\ alloc_p2p' = alloc_p2p \o TakeSubnets(pfx, P2pDiff(pfx), 0, npairs)
                /\ pair_ips' = pair_ips_off
                /\ nodes' = {NodeRec(SW(0), "unmanaged_switch")}
                            \cup {NodeRec(l, "unmanaged_switch") : l \in switches}
                            \cup {NodeRec(l, "router") : l \in rtrs}
                /\ ifaces' = (SW(0) :> 0..(sw0_port_count - 1))
                             @@ [l \in switches |-> 0..counts[l[2]]]
                             @@ [l \in rtrs |->
                                   IF l[2] % 2 = 1 THEN {0, 1} ELSE {0}]
                /\ configs' = [l \in rtrs |->
                                 Ctx(FlatAddrOffline(L_BASE, l[2]),
                                     FlatPairAddrs(pair_ips_off, l[2],
                                                   FlatAddrOffline(G_BASE, l[2])),
                                     FALSE, << >>)]
                /\ doc' = [doc EXCEPT !.nodes = OfflineFlatPairDocNodes(args)]
                /\ pc' = "offline_flat_pair_links"
                /\ UNCHANGED << retval, ended_at >>
           ELSE /\ Finish("crash")
                /\ UNCHANGED << alloc_p2p, pair_ips, nodes, ifaces, configs, doc >>
    /\ UNCHANGED << args, cfg, remote, lab_created, links, file_written, i, loopbacks,
                    p2pnets, alloc_lo, hub_info, routers, prev_iface, outfile,
                    start_thread, fx >>

\* render.py 3983-4000: every odd router to the next free port of its switch
RECURSIVE OfflineFlatPairRouterLinks(_, _, _, _, _)
OfflineFlatPairRouterLinks(idx, total, group, per_sw_next_port, acc) ==
    IF idx >= total THEN acc
    ELSE LET n == idx + 1
             sw_index == idx \div group + 1
             acc_port == per_sw_next_port[sw_index]
         IN  IF n % 2 = 0
             THEN OfflineFlatPairRouterLinks(idx + 1, total, group,
                                             per_sw_next_port, acc)
             ELSE OfflineFlatPairRouterLinks(
                      idx + 1, total, group,
                      [per_sw_next_port EXCEPT ![sw_index] = @ + 1],
                      acc \cup {Link(R(n), 0, SW(sw_index), acc_port)})

OfflinePairLinks_Chain(total) ==
    {Link(R(k), 1, R(k + 1), 0) : k \in 1..(total - 1)}

\* render.py 4002-4012: R<odd> slot 1 to R<odd+1> slot 0
OfflinePairLinks(total) ==
    {Link(R(odd), 1, R(odd + 1), 0) :
        odd \in {o \in 1..total : o % 2 = 1 /\ o + 1 <= total}}

\* render.py 3960-4012: the links section
OfflineFlatPairLinks ==
    /\ pc = "offline_flat_pair_links"
    /\ LET total == args.nodes
           group == Max(1, args.flat_group_size)
           num_sw == validate_flat_topology(total, group)
       IN  links' = UplinkLinks(SW(0), "SW", num_sw)
                    \cup OfflineFlatPairRouterLinks(0, total, group,
                                                    [k \in 1..num_sw |-> 1], {})
                    \cup OfflinePairLinks(total)
    /\ doc' = [doc EXCEPT !.links = OfflineFlatPairDocLinks(args, doc.nodes)]
    /\ pc' = "offline_flat_pair_write"
    /\ UNCHANGED << args, cfg, remote, retval, ended_at, lab_created, nodes, ifaces, configs,
                    file_written, i, loopbacks, p2pnets, alloc_lo, alloc_p2p,
                    pair_ips, hub_info, routers, prev_iface, outfile,
                    start_thread, fx >>

\* render.py 4069-4080
OfflineFlatPairWrite ==
    /\ pc = "offline_flat_pair_write"
    /\ WriteOutfile

TotalRouters_NodesOnly(a) == a.nodes

(***************************************************************************)
(* DMVPN: shared computations                                              *)
(***************************************************************************)
\* render.py 1283-1289: with --dmvpn-hubs the node count is the router count,
\* without it one hub is added to the spokes
TotalRouters(a) ==
    IF a.dmvpn_hubs_list # {} THEN a.nodes ELSE a.nodes + 1

\* render.py 1369-1373
HubSet(a) == IF a.dmvpn_hubs_list # {} THEN a.dmvpn_hubs_list ELSE {1}

CidrTooSmall_NoReserve(n, net) == n > NumAddresses(net)

\* render.py 1291-1298: the CIDR has a usable host for each of the n numbers
CidrTooSmall(n, net) == n > NumAddresses(net) - 2

\* models.py TopogenNode with its two TopogenInterface addresses
TopogenNode(hostname, loopback, interfaces) ==
    [hostname |-> hostname, loopback |-> loopback, interfaces |-> interfaces]

\* models.py TopogenInterface
TopogenInterface(address, description) ==
    [address |-> address, description |-> description]

\* render.py 1338-1363: the TopogenNode of DMVPN router rnum
DmvpnNode(rnum, nbma_net, tunnel_net) ==
    TopogenNode(R(rnum), FlatAddrLive(L_BASE, rnum),
                << TopogenInterface(nbma_net.addr + rnum, "dmvpn nbma"),
                   TopogenInterface(tunnel_net.addr + rnum, "dmvpn tunnel") >>)

HubInfoEntry(nbma_ip, tunnel_ip) ==
    [hub_nbma_ip |-> nbma_ip, hub_tunnel_ip |-> tunnel_ip]

HubsIn_FirstOnly(rnums, hub_set) ==
    LET IsHub(n) == n \in hub_set
        hs == SelectSeq(rnums, IsHub)
    IN  IF hs = << >> THEN hs ELSE << hs[1] >>

\* the numbers of rnums (ascending) that are in hub_set
HubsIn(rnums, hub_set) ==
    LET IsHub(n) == n \in hub_set IN SelectSeq(rnums, IsHub)

\* render.py 1375-1385: hub_info read back from the interfaces of the routers
\* built, in router order
LiveHubInfo(rs, hub_set) ==
    LET hs == HubsIn([k \in 1..Len(rs) |-> k], hub_set)
    IN  [k \in 1..Len(hs) |->
            HubInfoEntry(rs[hs[k]].interfaces[1].address,
                         rs[hs[k]].interfaces[2].address)]

\* render.py 1914-1927: hub_info computed from the CIDRs, in router order
OfflineHubInfo(rnums, hub_set, nbma_net, tunnel_net) ==
    LET hs == HubsIn(rnums, hub_set)
    IN  [k \in 1..Len(hs) |->
            HubInfoEntry(nbma_net.addr + hs[k], tunnel_net.addr + hs[k])]

(***************************************************************************)
(* render_dmvpn_network (live, flat underlay)                              *)
(***************************************************************************)
\* render.py 1270-1298: CIDR parsing, the hand-over to the flat-pair builder,
\* the capacity checks
DmvpnValidate ==
    /\ pc = "render_dmvpn_network"
    /\ IF ~ValidNetwork(args.nbma) \/ ~ValidNetwork(args.tunnel)
       THEN Abort("error")
       ELSE IF args.dmvpn_underlay = "flat-pair"
       THEN Goto("_render_dmvpn_flat_pair_network")
       ELSE IF \/ CidrTooSmall(TotalRouters(args), args.nbma)
               \/ CidrTooSmall(TotalRouters(args), args.tunnel)
       THEN Abort("error")
       ELSE Goto("dmvpn_switch")

\* render.py 1322
DmvpnCreateSwitch ==
    /\ pc = "dmvpn_switch"
    /\ nodes' = nodes \cup {NodeRec(SWnbma(0), "unmanaged_switch")}
    /\ i' = 0
    /\ pc' = "dmvpn_routers"
    /\ UNCHANGED << args, cfg, remote, retval, ended_at, lab_created, links, ifaces, configs,
                    file_written, loopbacks, p2pnets, alloc_lo, alloc_p2p,
                    pair_ips, hub_info, routers, prev_iface, doc, outfile,
                    start_thread, fx >>

\* render.py 1329-1367: router idx+1, its link to the one NBMA switch, its
\* TopogenNode
DmvpnCreateRouter ==
    /\ pc = "dmvpn_routers"
    /\ LET idx == i
           total_routers == TotalRouters(args)
       IN  IF idx < total_routers
           THEN /\ nodes' = nodes \cup {NodeRec(R(idx + 1), "router")}
                /\ links' = links \cup
                            {Link(R(idx + 1), 0, SWnbma(0),
                                  new_interface(links, SWnbma(0)))}
                /\ routers' = Append(routers,
                                     DmvpnNode(idx + 1, args.nbma, args.tunnel))
                /\ i' = i + 1
                /\ pc' = pc
           ELSE /\ pc' = "dmvpn_hub_info"
                /\ UNCHANGED << nodes, links, routers, i >>
    /\ UNCHANGED << args, cfg, remote, retval, ended_at, lab_created, ifaces, configs, file_written,
                    loopbacks, p2pnets, alloc_lo, alloc_p2p, pair_ips, hub_info, prev_iface, doc, outfile,
                    start_thread, fx >>

\* render.py 1329-1341 with a failing remote call: create_node raises a
\* TopogenError, the exception of create_link leaves main uncaught
DmvpnCreateRouterFails ==
    /\ pc = "dmvpn_routers"
    /\ remote = "flaky"
    /\ i < TotalRouters(args)
    /\ remote' = "failed"
    /\ \/ /\ Finish("error")
          /\ UNCHANGED nodes
       \/ /\ Finish("crash")
          /\ nodes' = nodes \cup {NodeRec(R(i + 1), "router")}
    /\ UNCHANGED << args, cfg, lab_created, links, ifaces, configs,
                    file_written, i, loopbacks, p2pnets, alloc_lo, alloc_p2p,
                    pair_ips, hub_info, routers, prev_iface, doc, outfile,
                    start_thread, fx >>

\* render.py 1369-1385
DmvpnHubInfo ==
    /\ pc = "dmvpn_hub_info"
    /\ hub_info' = LiveHubInfo(routers, HubSet(args))
    /\ i' = 0
    /\ pc' = "dmvpn_render"
    /\ UNCHANGED << args, cfg, remote, retval, ended_at, lab_created, nodes, links, ifaces, configs,
                    file_written, loopbacks, p2pnets, alloc_lo, alloc_p2p,
                    pair_ips, routers, prev_iface, doc, outfile,
                    start_thread, fx >>

\* render.py 1387-1457: the configuration of router idx+1; after the last one
\* the function returns 0
DmvpnRender ==
    /\ pc = "dmvpn_render"
    /\ LET idx == i
           rnum == idx + 1
       IN  IF idx < Len(routers)
           THEN /\ configs' = configs @@
                      (routers[rnum].hostname :>
                          Ctx(routers[rnum].loopback, routers[rnum].interfaces,
                              rnum \in HubSet(args), hub_info))
                /\ i' = i + 1
                /\ pc' = pc
                /\ UNCHANGED << retval, ended_at >>
           ELSE /\ Finish("ok")
                /\ UNCHANGED << configs, i >>
    /\ UNCHANGED << args, cfg, remote, lab_created, nodes, links, ifaces, file_written,
                    loopbacks, p2pnets, alloc_lo, alloc_p2p, pair_ips, hub_info,
                    routers, prev_iface, doc, outfile,
                    start_thread, fx >>

\* render.py 1411-1414: the assignment of the configuration of router idx+1
\* fails; "except Exception: pass" drops the failure and the loop goes on
DmvpnRenderFails ==
    /\ pc = "dmvpn_render"
    /\ remote = "flaky"
    /\ i < Len(routers)
    /\ remote' = "failed"
    /\ i' = i + 1
    /\ UNCHANGED << args, cfg, pc, retval, ended_at, lab_created, nodes, links,
                    ifaces, configs, file_written, loopbacks, p2pnets, alloc_lo,
                    alloc_p2p, pair_ips, hub_info, routers, prev_iface, doc,
                    outfile, start_thread, fx >>

(***************************************************************************)
(* offline_dmvpn_yaml (flat underlay)                                      *)
(***************************************************************************)
\* render.py 1738-1751: the port limits checked inline
OfflineDmvpnGuardrail(total_routers, group) ==
    \/ group + 1 > MAX_SW_PORTS
    \/ Ceil(total_routers, group) > MAX_SW_PORTS

\* render.py 1630-1668, 1738-1751
OfflineDmvpnValidate ==
    /\ pc = "offline_dmvpn_yaml"
    /\ LET total_routers == TotalRouters(args)
           group == Max(1, args.flat_group_size)
       IN  IF ~TemplateExists(args.template)
           THEN Abort("error")
           ELSE IF ~ValidNetwork(args.nbma) \/ ~ValidNetwork(args.tunnel)
           THEN Abort("error")
           ELSE IF \/ CidrTooSmall(total_routers, args.nbma)
                   \/ CidrTooSmall(total_routers, args.tunnel)
           THEN Abort("error")
           ELSE IF OfflineDmvpnGuardrail(total_routers, group)
           THEN Abort("error")
           ELSE Goto("offline_dmvpn_switches")

\* render.py 1821-1823: routers on access switch sidx+1
router_count(sidx, group, total_routers) ==
    LET start == sidx * group
        end == Min((sidx + 1) * group, total_routers)
    IN  Max(0, end - start)

\* render.py 1809-1832: router idx+1 -> (access switch, port), filled switch
\* by switch, ports 1..router_count
RECURSIVE router_port_map(_, _, _, _)
router_port_map(sidx, num_access, group, total_routers) ==
    IF sidx >= num_access THEN << >>
    ELSE [p \in 1..router_count(sidx, group, total_routers) |->
             << SWnbma(sidx + 1), p >>]
         \o router_port_map(sidx + 1, num_access, group, total_routers)

\* render.py 1786-1813: the switch nodes of the document
OfflineDmvpnSwitchNodes(a) ==
    LET num_access == Ceil(TotalRouters(a), Max(1, a.flat_group_size))
    IN  {NodeRec(SWnbma(0), "unmanaged_switch")}
        \cup {NodeRec(SWnbma(k), "unmanaged_switch") : k \in 1..num_access}

\* render.py 1932-2029: the router nodes of the document
OfflineDmvpnRouterNodes(a) ==
    {NodeRec(R(n), "router") : n \in 1..TotalRouters(a)}

\* render.py 2136-2176: uplinks, then every router to its mapped port
OfflineDmvpnLinkSet(a) ==
    LET total_routers == TotalRouters(a)
        group == Max(1, a.flat_group_size)
        num_access == Ceil(total_routers, group)
        rpm == router_port_map(0, num_access, group, total_routers)
    IN  UplinkLinks(SWnbma(0), "SWnbma", num_access)
        \cup {Link(R(idx + 1), 0, rpm[idx + 1][1], rpm[idx + 1][2]) :
                idx \in 0..(total_routers - 1)}

\* render.py 1780-1785: a spacing scaled so that the given number of steps
\* stays within the coordinate ceiling
ScaledStep(base, steps) == Max(1, Min(base, MAX_COORD \div Max(1, steps)))

\* render.py 1786-1906: the switch entries of the DMVPN document; SWoob0
\* gets one port per management access switch
OfflineDmvpnDocSwitches(a) ==
    LET total_routers == TotalRouters(a)
        group == Max(1, a.flat_group_size)
        num_access == Ceil(total_routers, group)
        sw_step_x == ScaledStep(a.distance * 3, num_access + 1)
        swnbma0_port_count == num_access + (IF a.pki_enabled THEN 1 ELSE 0)
        num_oob_sw == num_access
    IN  << DocNode(SWnbma(0), "unmanaged_switch", 0, 0,
                   Ports(0, swnbma0_port_count)) >>
        \o [k \in 1..num_access |->
              DocNode(SWnbma(k), "unmanaged_switch",
                      Min(MAX_COORD, k * sw_step_x), 0,
                      Ports(0, 1 + router_count(k - 1, group, total_routers)))]
        \o (IF a.enable_mgmt
            THEN OobSwitchNodes(a, num_oob_sw,
                                [k \in 1..num_oob_sw |->
                                    router_count(k - 1, group, total_routers)],
                                num_oob_sw)
            ELSE << >>)

\* render.py 1932-2134: the router entries and the CA entry
OfflineDmvpnDocRouters(a) ==
    LET total_routers == TotalRouters(a)
        group == Max(1, a.flat_group_size)
        num_access == Ceil(total_routers, group)
        sw_step_x == ScaledStep(a.distance * 3, num_access + 1)
        router_step_y == ScaledStep(a.distance, group + 2)
        dev_def == a.dev_template
    IN  [n \in 1..total_routers |->
            DocNode(R(n), dev_def,
                    Min(MAX_COORD, ((n - 1) \div group + 1) * sw_step_x),
                    Min(MAX_COORD, (((n - 1) % group) + 1) * router_step_y),
                    << Iface(0) >> \o MgmtIface(a, dev_def))]
        \o (IF a.pki_enabled THEN << DmvpnCaNode(a) >> ELSE << >>)

\* render.py 2136-2222: the link entries of the DMVPN document; the CA has
\* a data link and no management link
OfflineDmvpnDocLinks(a, ns) ==
    LET total_routers == TotalRouters(a)
        group == Max(1, a.flat_group_size)
        num_access == Ceil(total_routers, group)
        rpm == router_port_map(0, num_access, group, total_routers)
        oob_of == [idx \in 0..(total_routers - 1) |-> idx \div group]
    IN  NumberedLinks(
          [k \in 1..num_access |-> DocLink(SWnbma(k), 0, SWnbma(0), k - 1)]
          \o (IF a.pki_enabled
              THEN << DocLink(CA_ROOT, 0, SWnbma(0), num_access) >>
              ELSE << >>)
          \o [n \in 1..total_routers |->
                DocLink(R(n), 0, rpm[n][1], rpm[n][2])]
          \o (IF a.enable_mgmt
              THEN OobLinks(a, num_access, total_routers, oob_of,
                            a.dev_template, FALSE)
              ELSE << >>),
          ns)

\* render.py 1786-1834: the core and the access switches
OfflineDmvpnSwitches ==
    /\ pc = "offline_dmvpn_switches"
    /\ LET total_routers == TotalRouters(args)
           group == Max(1, args.flat_group_size)
           num_access == Ceil(total_routers, group)
           swnbma0_port_count == num_access
           switches == {SWnbma(k) : k \in 1..num_access}
       IN  /\ nodes' = OfflineDmvpnSwitchNodes(args)
           /\ ifaces' = (SWnbma(0) :> 0..(swnbma0_port_count - 1))
                        @@ [l \in switches |->
                              0..router_count(l[2] - 1, group, total_routers)]
    /\ doc' = [doc EXCEPT !.nodes = Numbered(OfflineDmvpnDocSwitches(args))]
    /\ pc' = "offline_dmvpn_hub_info"
    /\ UNCHANGED << args, cfg, remote, retval, ended_at, lab_created, links, configs, file_written,
                    i, loopbacks, p2pnets, alloc_lo, alloc_p2p, pair_ips,
                    hub_info, routers, prev_iface, outfile,
                    start_thread, fx >>

\* render.py 1908-1927
OfflineDmvpnHubInfo ==
    /\ pc = "offline_dmvpn_hub_info"
    /\ hub_info' = OfflineHubInfo([n \in 1..TotalRouters(args) |-> n],
                                  HubSet(args), args.nbma, args.tunnel)
    /\ pc' = "offline_dmvpn_routers"
    /\ UNCHANGED << args, cfg, remote, retval, ended_at, lab_created, nodes, links, ifaces, configs,
                    file_written, i, loopbacks, p2pnets, alloc_lo, alloc_p2p,
                    pair_ips, routers, prev_iface, doc, outfile,
                    start_thread, fx >>

\* render.py 1932-2029: the routers and their configurations
OfflineDmvpnRouters ==
    /\ pc = "offline_dmvpn_routers"
    /\ LET total_routers == TotalRouters(args)
           rtrs == {R(n) : n \in 1..total_routers}
       IN  /\ nodes' = nodes \cup OfflineDmvpnRouterNodes(args)
           /\ ifaces' = ifaces @@ [l \in rtrs |-> {0}]
           /\ routers' = [n \in 1..total_routers |->
                            DmvpnNode(n, args.nbma, args.tunnel)]
           /\ configs' = [l \in rtrs |->
                            Ctx(DmvpnNode(l[2], args.nbma, args.tunnel).loopback,
                                DmvpnNode(l[2], args.nbma, args.tunnel).interfaces,
                                l[2] \in HubSet(args), hub_info)]
    /\ doc' = [doc EXCEPT !.nodes =
                   Numbered(doc.nodes \o OfflineDmvpnDocRouters(args))]
    /\ pc' = "offline_dmvpn_links"
    /\ UNCHANGED << args, cfg, remote, retval, ended_at, lab_created, links, file_written, i,
                    loopbacks, p2pnets, alloc_lo, alloc_p2p, pair_ips, hub_info, prev_iface, outfile,
                    start_thread, fx >>

\* render.py 2136-2176: the links section
OfflineDmvpnLinks ==
    /\ pc = "offline_dmvpn_links"
    /\ links' = OfflineDmvpnLinkSet(args)
    /\ doc' = [doc EXCEPT !.links = OfflineDmvpnDocLinks(args, doc.nodes)]
    /\ pc' = "offline_dmvpn_write"
    /\ UNCHANGED << args, cfg, remote, retval, ended_at, lab_created, nodes, ifaces, configs,
                    file_written, i, loopbacks, p2pnets, alloc_lo, alloc_p2p,
                    pair_ips, hub_info, routers, prev_iface, outfile,
                    start_thread, fx >>

\* render.py 2224-2242
OfflineDmvpnWrite ==
    /\ pc = "offline_dmvpn_write"
    /\ WriteOutfile

(***************************************************************************)
(* DMVPN over the flat-pair underlay: shared computations                  *)
(***************************************************************************)
\* render.py 1032: the odd routers are the DMVPN endpoints
TotalEndpoints(total_routers) == (total_routers + 1) \div 2

\* render.py 1120-1147: the TopogenNode of router rnum; an odd router carries
\* NBMA, pair and tunnel interfaces, an even router its pair interface only
DmvpnFlatPairNode(rnum, nbma_net, tunnel_net, pips) ==
    IF rnum % 2 = 1
    THEN TopogenNode(R(rnum), FlatAddrLive(L_BASE, rnum),
             << TopogenInterface(nbma_net.addr + rnum, "dmvpn nbma"),
                TopogenInterface(PairIp(pips, rnum, 1), "pair link"),
                TopogenInterface(tunnel_net.addr + rnum, "dmvpn tunnel") >>)
    ELSE TopogenNode(R(rnum), FlatAddrLive(L_BASE, rnum),
             << TopogenInterface(PairIp(pips, rnum - 1, 2), "pair link") >>)

\* next((i for i in interfaces if i.description == desc), None): the position
\* of the first match, 0 for None
FirstWith(interfaces, desc) ==
    LET hits == {k \in DOMAIN interfaces : interfaces[k].description = desc}
    IN  IF hits = {} THEN 0
        ELSE CHOOSE k \in hits : \A j \in hits : k <= j

\* render.py 1186-1199: hub_info read back from the odd routers in hub_set
DmvpnFlatPairHubInfo(rs, hub_set) ==
    LET Listed(k) ==
            /\ k % 2 = 1
            /\ k \in hub_set
            /\ FirstWith(rs[k].interfaces, "dmvpn nbma") # 0
            /\ FirstWith(rs[k].interfaces, "dmvpn tunnel") # 0
            /\ rs[k].interfaces[FirstWith(rs[k].interfaces, "dmvpn nbma")].address
                   # NoAddr
            /\ rs[k].interfaces[FirstWith(rs[k].interfaces, "dmvpn tunnel")].address
                   # NoAddr
        hs == SelectSeq([k \in 1..Len(rs) |-> k], Listed)
    IN  [k \in 1..Len(hs) |->
            HubInfoEntry(
                rs[hs[k]].interfaces[FirstWith(rs[hs[k]].interfaces,
                                               "dmvpn nbma")].address,
                rs[hs[k]].interfaces[FirstWith(rs[hs[k]].interfaces,
                                               "dmvpn tunnel")].address)]

\* the context router rnum is rendered from: the DMVPN template for an odd
\* router, the companion EIGRP template (no hub data) for an even one
DmvpnFlatPairCtx(rnum, node, hub_set, hubs) ==
    IF rnum % 2 = 1
    THEN Ctx(node.loopback, node.interfaces, rnum \in hub_set, hubs)
    ELSE Ctx(node.loopback, node.interfaces, FALSE, << >>)

(***************************************************************************)
(* _render_dmvpn_flat_pair_network (live)                                  *)
(***************************************************************************)
\* render.py 1049-1060
DfpValidate ==
    /\ pc = "_render_dmvpn_flat_pair_network"
    /\ LET total_routers == args.nodes
           total_endpoints == TotalEndpoints(total_routers)
           max_odd_rnum == MaxOddRnum(total_routers)
           group == Max(1, args.flat_group_size)
       IN  IF \/ CidrTooSmall(max_odd_rnum, args.nbma)
              \/ CidrTooSmall(max_odd_rnum, args.tunnel)
           THEN Abort("error")
           ELSE IF ValidateError(total_endpoints, group)
           THEN Abort("error")
           ELSE Goto("dfp_core")

\* render.py 1078
DfpCreateCore ==
    /\ pc = "dfp_core"
    /\ nodes' = nodes \cup {NodeRec(SWnbma(0), "unmanaged_switch")}
    /\ i' = 0
    /\ pc' = "dfp_switches"
    /\ UNCHANGED << args, cfg, remote, retval, ended_at, lab_created, links, ifaces, configs,
                    file_written, loopbacks, p2pnets, alloc_lo, alloc_p2p,
                    pair_ips, hub_info, routers, prev_iface, doc, outfile,
                    start_thread, fx >>

\* render.py 1079-1084
DfpCreateSwitch ==
    /\ pc = "dfp_switches"
    /\ LET group == Max(1, args.flat_group_size)
           num_sw == validate_flat_topology(TotalEndpoints(args.nodes), group)
       IN  IF i < num_sw
           THEN /\ CreateAccessSwitch(SWnbma(0), SWnbma(i + 1))
                /\ i' = i + 1
                /\ pc' = pc
           ELSE /\ pc' = "dfp_pair_ips"
                /\ i' = 0
                /\ UNCHANGED << nodes, links >>
    /\ UNCHANGED << args, cfg, remote, retval, ended_at, lab_created, ifaces, configs, file_written,
                    loopbacks, p2pnets, alloc_lo, alloc_p2p, pair_ips, hub_info,
                    routers, prev_iface, doc, outfile,
                    start_thread, fx >>

\* render.py 1088-1104: as in flat-pair mode, a fresh /30 generator and an
\* uncaught StopIteration when it runs out
DfpPairIps ==
    /\ pc = "dfp_pair_ips"
    /\ LET pfx == cfg.p2pnets
           n == PairCount(args.nodes)
       IN  IF CanTake(pfx, P2pDiff(pfx), 0, n)
           THEN /\ alloc_p2p' = alloc_p2p \o TakeSubnets(pfx, P2pDiff(pfx), 0, n)
                /\ pair_ips' = PairIpsOf(TakeSubnets(pfx, P2pDiff(pfx), 0, n))
                /\ pc' = "dfp_companion"
                /\ UNCHANGED << retval, ended_at >>
           ELSE /\ Finish("crash")
                /\ UNCHANGED << alloc_p2p, pair_ips >>
    /\ UNCHANGED << args, cfg, remote, lab_created, nodes, links, ifaces, configs,
                    file_written, i, loopbacks, p2pnets, alloc_lo, hub_info,
                    routers, prev_iface, doc, outfile,
                    start_thread, fx >>

\* render.py 1110: the companion template is loaded after the switches
\* exist and the pair addresses are drawn
DfpLoadCompanion ==
    /\ pc = "dfp_companion"
    /\ IF CompanionError(args.template)
       THEN Abort("error")
       ELSE Goto("dfp_routers")

\* render.py 1108-1150
DfpCreateRouter ==
    /\ pc = "dfp_routers"
    /\ LET rnum == i + 1
       IN  IF rnum <= args.nodes
           THEN /\ nodes' = nodes \cup {NodeRec(R(rnum), "router")}
                /\ routers' = Append(routers,
                       DmvpnFlatPairNode(rnum, args.nbma, args.tunnel, pair_ips))
                /\ i' = i + 1
                /\ pc' = pc
           ELSE /\ pc' = "dfp_endpoint_links"
                /\ i' = 1
                /\ UNCHANGED << nodes, routers >>
    /\ UNCHANGED << args, cfg, remote, retval, ended_at, lab_created, links, ifaces, configs,
                    file_written, loopbacks, p2pnets, alloc_lo, alloc_p2p,
                    pair_ips, hub_info, prev_iface, doc, outfile,
                    start_thread, fx >>

\* render.py 1152-1164: odd router i to the next free port of its switch
DfpLinkEndpoint ==
    /\ pc = "dfp_endpoint_links"
    /\ LET rnum == i
           group == Max(1, args.flat_group_size)
           endpoint_idx == (rnum + 1) \div 2
           sw_index == (endpoint_idx - 1) \div group
       IN  IF rnum <= args.nodes
           THEN /\ links' = links \cup
                            {Link(R(rnum), 0, SWnbma(sw_index + 1),
                                  new_interface(links, SWnbma(sw_index + 1)))}
                /\ i' = i + 2
                /\ pc' = pc
           ELSE /\ pc' = "dfp_pair_links"
                /\ i' = 1
                /\ UNCHANGED links
    /\ UNCHANGED << args, cfg, remote, retval, ended_at, lab_created, nodes, ifaces, configs,
                    file_written, loopbacks, p2pnets, alloc_lo, alloc_p2p,
                    pair_ips, hub_info, routers, prev_iface, doc, outfile,
                    start_thread, fx >>

\* render.py 1166-1184
DfpCreatePairLink ==
    /\ pc = "dfp_pair_links"
    /\ LET odd == i
           even == odd + 1
       IN  IF odd <= args.nodes
           THEN /\ links' = IF even > args.nodes THEN links
                            ELSE links \cup {Link(R(odd), 1, R(even), 0)}
                /\ i' = i + 2
                /\ pc' = pc
           ELSE /\ pc' = "dfp_hub_info"
                /\ UNCHANGED << links, i >>
    /\ UNCHANGED << args, cfg, remote, retval, ended_at, lab_created, nodes, ifaces, configs,
                    file_written, loopbacks, p2pnets, alloc_lo, alloc_p2p,
                    pair_ips, hub_info, routers, prev_iface, doc, outfile,
                    start_thread, fx >>

\* render.py 1186-1199
DfpHubInfo ==
    /\ pc = "dfp_hub_info"
    /\ hub_info' = DmvpnFlatPairHubInfo(routers, HubSet(args))
    /\ i' = 0
    /\ pc' = "dfp_render"
    /\ UNCHANGED << args, cfg, remote, retval, ended_at, lab_created, nodes, links, ifaces, configs,
                    file_written, loopbacks, p2pnets, alloc_lo, alloc_p2p,
                    pair_ips, routers, prev_iface, doc, outfile,
                    start_thread, fx >>

\* render.py 1201-1256
DfpRender ==
    /\ pc = "dfp_render"
    /\ LET rnum == i + 1
       IN  IF rnum <= Len(routers)
           THEN /\ configs' = configs @@
                      (routers[rnum].hostname :>
                          DmvpnFlatPairCtx(rnum, routers[rnum], HubSet(args),
                                           hub_info))
                /\ i' = i + 1
                /\ pc' = pc
                /\ UNCHANGED << retval, ended_at >>
           ELSE /\ Finish("ok")
                /\ UNCHANGED << configs, i >>
    /\ UNCHANGED << args, cfg, remote, lab_created, nodes, links, ifaces, file_written,
                    loopbacks, p2pnets, alloc_lo, alloc_p2p, pair_ips, hub_info,
                    routers, prev_iface, doc, outfile,
                    start_thread, fx >>

(***************************************************************************)
(* offline_dmvpn_flat_pair_yaml                                            *)
(***************************************************************************)
\* render.py 2246-2296
OfflineDfpValidate ==
    /\ pc = "offline_dmvpn_flat_pair_yaml"
    /\ LET total_routers == args.nodes
           total_endpoints == TotalEndpoints(total_routers)
           max_odd_rnum == MaxOddRnum(total_routers)
           group == Max(1, args.flat_group_size)
       IN  IF ~TemplateExists(args.template) \/ CompanionError(args.template)
           THEN Abort("error")
           ELSE IF ~ValidNetwork(args.nbma) \/ ~ValidNetwork(args.tunnel)
           THEN Abort("error")
           ELSE IF \/ CidrTooSmall(max_odd_rnum, args.nbma)
                   \/ CidrTooSmall(max_odd_rnum, args.tunnel)
           THEN Abort("error")
           ELSE IF ValidateError(total_endpoints, group)
           THEN Abort("error")
           ELSE Goto("offline_dfp_switches")

\* render.py 2412-2437: endpoint ep -> (access switch, port)
endpoint_port_map(num_access, group, total_endpoints) ==
    router_port_map(0, num_access, group, total_endpoints)

\* render.py 2394-2510: the switch entries of the DMVPN flat-pair document;
\* the management access switches share out all routers, odd and even
OfflineDfpDocSwitches(a) ==
    LET total_routers == a.nodes
        total_endpoints == TotalEndpoints(total_routers)
        group == Max(1, a.flat_group_size)
        num_access == validate_flat_topology(total_endpoints, group)
        sw_step_x == ScaledStep(a.distance * 3, num_access + 1)
        swnbma0_port_count == num_access + (IF a.pki_enabled THEN 1 ELSE 0)
        num_oob_sw == num_access
        routers_per_oob == Ceil(total_routers, num_oob_sw)
        swoob0_port_count == num_oob_sw + (IF a.pki_enabled THEN 1 ELSE 0)
    IN  << DocNode(SWnbma(0), "unmanaged_switch", 0, 0,
                   Ports(0, swnbma0_port_count)) >>
        \o [k \in 1..num_access |->
              DocNode(SWnbma(k), "unmanaged_switch",
                      Min(MAX_COORD, k * sw_step_x), 0,
                      Ports(0, 1 + router_count(k - 1, group, total_endpoints)))]
        \o (IF a.enable_mgmt
            THEN OobSwitchNodes(a, num_oob_sw,
                                [k \in 1..num_oob_sw |->
                                    router_count(k - 1, routers_per_oob,
                                                 total_routers)],
                                swoob0_port_count)
            ELSE << >>)

\* render.py 2553-2794: the router entries and the CA entry
OfflineDfpDocRouters(a) ==
    LET total_routers == a.nodes
        total_endpoints == TotalEndpoints(total_routers)
        group == Max(1, a.flat_group_size)
        num_access == validate_flat_topology(total_endpoints, group)
        sw_step_x == ScaledStep(a.distance * 3, num_access + 1)
        router_step_y == ScaledStep(a.distance, group * 2 + 2)
        dev_def == a.dev_template
    IN  [rnum \in 1..total_routers |->
            DocNode(R(rnum), dev_def,
                    Min(MAX_COORD,
                        (((rnum - 1) \div 2) \div group + 1) * sw_step_x),
                    Min(MAX_COORD,
                        (((rnum - 1) % (group * 2)) + 1) * router_step_y),
                    << Iface(0) >>
                    \o (IF rnum % 2 = 1 THEN << Iface(1) >> ELSE << >>)
                    \o MgmtIface(a, dev_def))]
        \o (IF a.pki_enabled THEN << DmvpnCaNode(a) >> ELSE << >>)

\* render.py 2796-2907: the link entries of the DMVPN flat-pair document
OfflineDfpDocLinks(a, ns) ==
    LET total_routers == a.nodes
        total_endpoints == TotalEndpoints(total_routers)
        group == Max(1, a.flat_group_size)
        num_access == validate_flat_topology(total_endpoints, group)
        epm == endpoint_port_map(num_access, group, total_endpoints)
        routers_per_oob == (total_routers + num_access - 1) \div num_access
        oob_of == [idx \in 0..(total_routers - 1) |-> idx \div routers_per_oob]
    IN  NumberedLinks(
          [k \in 1..num_access |-> DocLink(SWnbma(k), 0, SWnbma(0), k - 1)]
          \o (IF a.pki_enabled
              THEN << DocLink(CA_ROOT, 0, SWnbma(0), num_access) >>
              ELSE << >>)
          \o [ep \in 1..total_endpoints |->
                DocLink(R(ep * 2 - 1), 0, epm[ep][1], epm[ep][2])]
          \o [k \in 1..PairCount(total_routers) |->
                DocLink(R(2 * k - 1), 1, R(2 * k), 0)]
          \o (IF a.enable_mgmt
              THEN OobLinks(a, num_access, total_routers, oob_of,
                            a.dev_template, a.pki_enabled)
              ELSE << >>),
          ns)

\* render.py 2394-2437: the core and the access switches
OfflineDfpSwitches ==
    /\ pc = "offline_dfp_switches"
    /\ LET total_endpoints == TotalEndpoints(args.nodes)
           group == Max(1, args.flat_group_size)
           num_access == validate_flat_topology(total_endpoints, group)
           swnbma0_port_count == num_access
           switches == {SWnbma(k) : k \in 1..num_access}
       IN  /\ nodes' = {NodeRec(SWnbma(0), "unmanaged_switch")}
                       \cup {NodeRec(l, "unmanaged_switch") : l \in switches}
           /\ ifaces' = (SWnbma(0) :> 0..(swnbma0_port_count - 1))
                        @@ [l \in switches |->
                              0..router_count(l[2] - 1, group, total_endpoints)]
    /\ doc' = [doc EXCEPT !.nodes = Numbered(OfflineDfpDocSwitches(args))]
    /\ pc' = "offline_dfp_hub_info"
    /\ UNCHANGED << args, cfg, remote, retval, ended_at, lab_created, links, configs, file_written,
                    i, loopbacks, p2pnets, alloc_lo, alloc_p2p, pair_ips,
                    hub_info, routers, prev_iface, outfile,
                    start_thread, fx >>

\* render.py 2513-2532: hub_info over the odd router numbers
OfflineDfpHubInfo ==
    /\ pc = "offline_dfp_hub_info"
    /\ hub_info' = OfflineHubInfo(
                       [ep \in 1..TotalEndpoints(args.nodes) |-> ep * 2 - 1],
                       HubSet(args), args.nbma, args.tunnel)
    /\ pc' = "offline_dfp_routers"
    /\ UNCHANGED << args, cfg, remote, retval, ended_at, lab_created, nodes, links, ifaces, configs,
                    file_written, i, loopbacks, p2pnets, alloc_lo, alloc_p2p,
                    pair_ips, routers, prev_iface, doc, outfile,
                    start_thread, fx >>

\* render.py 2536-2668: the pair addresses, the routers, their configurations
OfflineDfpRouters ==
    /\ pc = "offline_dfp_routers"
    /\ LET total_routers == args.nodes
           rtrs == {R(n) : n \in 1..total_routers}
           pfx == cfg.p2pnets
           npairs == PairCount(total_routers)
           pips == PairIpsOf(TakeSubnets(pfx, P2pDiff(pfx), 0, npairs))
           node(rnum) == DmvpnFlatPairNode(rnum, args.nbma, args.tunnel, pips)
       IN  IF CanTake(pfx, P2pDiff(pfx), 0, npairs)
           THEN /\ alloc_p2p' = alloc_p2p \o TakeSubnets(pfx, P2pDiff(pfx), 0, npairs)
                /\ pair_ips' = pips
                /\ nodes' = nodes \cup {NodeRec(l, "router") : l \in rtrs}
                /\ ifaces' = ifaces @@
                             [l \in rtrs |-> IF l[2] % 2 = 1 THEN {0, 1} ELSE {0}]
                /\ routers' = [n \in 1..total_routers |-> node(n)]
                /\ configs' = [l \in rtrs |->
                                 DmvpnFlatPairCtx(l[2], node(l[2]), HubSet(args),
                                                  hub_info)]
                /\ doc' = [doc EXCEPT !.nodes =
                               Numbered(doc.nodes \o OfflineDfpDocRouters(args))]
                /\ pc' = "offline_dfp_links"
                /\ UNCHANGED << retval, ended_at >>
           ELSE /\ Finish("crash")
                /\ UNCHANGED << alloc_p2p, pair_ips, nodes, ifaces, routers,
                                configs, doc >>
    /\ UNCHANGED << args, cfg, remote, lab_created, links, file_written, i, loopbacks,
                    p2pnets, alloc_lo, hub_info, prev_iface, outfile,
                    start_thread, fx >>

\* render.py 2796-2846: uplinks, endpoint links, pair links
OfflineDfpLinks ==
    /\ pc = "offline_dfp_links"
    /\ LET total_routers == args.nodes
           total_endpoints == TotalEndpoints(total_routers)
           group == Max(1, args.flat_group_size)
           num_access == validate_flat_topology(total_endpoints, group)
           epm == endpoint_port_map(num_access, group, total_endpoints)
       IN  links' = UplinkLinks(SWnbma(0), "SWnbma", num_access)
                    \cup {Link(R(ep * 2 - 1), 0, epm[ep][1], epm[ep][2]) :
                            ep \in 1..total_endpoints}
                    \cup OfflinePairLinks(total_routers)
    /\ doc' = [doc EXCEPT !.links = OfflineDfpDocLinks(args, doc.nodes)]
    /\ pc' = "offline_dfp_write"
    /\ UNCHANGED << args, cfg, remote, retval, ended_at, lab_created, nodes, ifaces, configs,
                    file_written, i, loopbacks, p2pnets, alloc_lo, alloc_p2p,
                    pair_ips, hub_info, routers, prev_iface, outfile,
                    start_thread, fx >>

\* render.py 2906-2928
OfflineDfpWrite ==
    /\ pc = "offline_dfp_write"
    /\ WriteOutfile

(***************************************************************************)
(* render_node_sequence (live, simple mode)                                *)
(***************************************************************************)
EXT_CON_NAME == << "ext-conn", 0 >>
DNS_HOST_NAME == << "dns-host", 0 >>

\* the two orders in which the set returned by next_network() can unpack
Unpackings(net) ==
    { << Hosts(net)[1], Hosts(net)[2] >>, << Hosts(net)[2], Hosts(net)[1] >> }

\* render.py 4358
SeqCreateExtConn ==
    /\ pc = "render_node_sequence"
    /\ nodes' = nodes \cup {NodeRec(EXT_CON_NAME, "external_connector")}
    /\ pc' = "seq_dns_host"
    /\ UNCHANGED << args, cfg, remote, retval, ended_at, lab_created, links, ifaces, configs,
                    file_written, i, loopbacks, p2pnets, alloc_lo, alloc_p2p,
                    pair_ips, hub_info, routers, prev_iface, doc, outfile,
                    start_thread, fx >>

\* render.py 4361-4373: the first point-to-point network, the DNS host, the
\* link between the external connector and the DNS host; dns_iface and
\* dns_via are the addresses the configuration of the DNS host is rendered
\* from when the routers are done (render.py 4473-4481)
SeqCreateDnsHost ==
    /\ pc = "seq_dns_host"
    /\ LET pool == cfg.p2pnets
           d == P2pDiff(pool)
       IN  IF ~CanTake(pool, d, p2pnets, 1)
           THEN /\ Finish("crash")
                /\ UNCHANGED << nodes, links, configs, p2pnets, alloc_p2p,
                                prev_iface, i >>
           ELSE \E u \in Unpackings(SubnetAt(pool, d, p2pnets)) :
                /\ p2pnets' = p2pnets + 1
                /\ alloc_p2p' = Append(alloc_p2p, SubnetAt(pool, d, p2pnets))
                /\ prev_iface' = u[2]
                /\ configs' = configs @@
                      (DNS_HOST_NAME :> Ctx(NoAddr, << u[1], u[2] >>, FALSE, << >>))
                /\ nodes' = nodes \cup {NodeRec(DNS_HOST_NAME, "alpine")}
                /\ links' = links \cup {Link(EXT_CON_NAME, 0, DNS_HOST_NAME, 0)}
                /\ i' = 0
                /\ pc' = "seq_routers"
                /\ UNCHANGED << retval, ended_at >>
    /\ UNCHANGED << args, cfg, remote, lab_created, ifaces, file_written, loopbacks,
                    alloc_lo, pair_ips, hub_info, routers, doc, outfile,
                    start_thread, fx >>

PrevCml2Iface_SameSlot(idx) ==
    IF idx = 0 THEN << DNS_HOST_NAME, 1 >> ELSE << R(idx), 1 >>

\* the interface linked to the next router: slot 1 of the DNS host, slot 0 of
\* a router (render.py 4368, 4457)
PrevCml2Iface(idx) ==
    IF idx = 0 THEN << DNS_HOST_NAME, 1 >> ELSE << R(idx), 0 >>

\* render.py 4399-4468: the loopback and the network of router idx+1, the
\* router, its link to the previous node
SeqCreateRouter ==
    /\ pc = "seq_routers"
    /\ i < args.nodes
    /\ LET idx == i
           lpool == cfg.loopbacks
           ld == IPV4LENGTH - lpool.plen
           pool == cfg.p2pnets
           d == P2pDiff(pool)
       IN  IF ~CanTake(lpool, ld, loopbacks, 1)
           THEN /\ Finish("crash")
                /\ UNCHANGED << nodes, links, configs, loopbacks, p2pnets,
                                alloc_lo, alloc_p2p, prev_iface, i >>
           ELSE IF ~CanTake(pool, d, p2pnets, 1)
           THEN /\ Finish("crash")
                /\ loopbacks' = loopbacks + 1
                /\ alloc_lo' = Append(alloc_lo, SubnetAt(lpool, ld, loopbacks))
                /\ UNCHANGED << nodes, links, configs, p2pnets, alloc_p2p,
                                prev_iface, i >>
           ELSE \E u \in Unpackings(SubnetAt(pool, d, p2pnets)) :
                /\ loopbacks' = loopbacks + 1
                /\ alloc_lo' = Append(alloc_lo, SubnetAt(lpool, ld, loopbacks))
                /\ p2pnets' = p2pnets + 1
                /\ alloc_p2p' = Append(alloc_p2p, SubnetAt(pool, d, p2pnets))
                /\ configs' = configs @@
                      (R(idx + 1) :>
                          Ctx(SubnetAt(lpool, ld, loopbacks).addr,
                              << u[1], prev_iface >>, FALSE, << >>))
                /\ nodes' = nodes \cup {NodeRec(R(idx + 1), "router")}
                /\ links' = links \cup
                            {{ PrevCml2Iface(idx), << R(idx + 1), 1 >> }}
                /\ prev_iface' = u[2]
                /\ i' = i + 1
                /\ pc' = pc
                /\ UNCHANGED << retval, ended_at >>
    /\ UNCHANGED << args, cfg, remote, lab_created, ifaces, file_written, pair_ips,
                    hub_info, routers, doc, outfile,
                    start_thread, fx >>

\* render.py 4470-4495: the DNS host is configured, the lab start is handed
\* to a background thread, the function returns 0
SeqFinish ==
    /\ pc = "seq_routers"
    /\ i >= args.nodes
    /\ _start_lab_in_background
    /\ UNCHANGED << args, cfg, remote, lab_created, nodes, links, ifaces, configs,
                    file_written, i, loopbacks, p2pnets, alloc_lo, alloc_p2p,
                    pair_ips, hub_info, routers, prev_iface, doc, outfile, fx >>

(***************************************************************************)
(* The flat address derivation on its own: two indices, each derived by    *)
(* the live code and by the offline code.                                  *)
(***************************************************************************)
\* the indices the derivation is specified for: 1..65535
MaxFlatIndex == 256 * 256 - 1

\* third and fourth bytes sampled around the byte and sign boundaries
ByteSamples == {0, 1, 2, 63, 64, 127, 128, 129, 191, 192, 254, 255}

IndexSamples ==
    {n \in 1..MaxFlatIndex : n \div 256 \in ByteSamples /\ n % 256 \in ByteSamples}

InitFlatAddr ==
    /\ args = << >>
    /\ cfg = DefaultConfig
    /\ remote = "up"
    /\ pc = "flat_addr"
    /\ retval = "running"
    /\ lab_created = FALSE
    /\ nodes = {}
    /\ links = {}
    /\ ifaces = << >>
    /\ configs = << >>
    /\ file_written = FALSE
    /\ i = 0
    /\ loopbacks = 0
    /\ p2pnets = 0
    /\ alloc_lo = << >>
    /\ alloc_p2p = << >>
    /\ pair_ips = << >>
    /\ hub_info = << >>
    /\ routers = << >>
    /\ prev_iface = NoAddr
    /\ ended_at = "none"
    /\ doc = NoDoc
    /\ outfile = "absent"
    /\ start_thread = "none"
    /\ \E a \in IndexSamples, b \in IndexSamples :
          fx = [NoFx EXCEPT !.a = a, !.b = b]

\* both indices derived for the data base 10.10 and the loopback base 10.20,
\* by render_flat_network and by offline_flat_yaml
DeriveFlatAddress ==
    /\ pc = "flat_addr"
    /\ fx' = [fx EXCEPT
                !.live_a = << FlatAddrLive(G_BASE, fx.a), FlatAddrLive(L_BASE, fx.a) >>,
                !.live_b = << FlatAddrLive(G_BASE, fx.b), FlatAddrLive(L_BASE, fx.b) >>,
                !.off_a = << FlatAddrOffline(G_BASE, fx.a),
                             FlatAddrOffline(L_BASE, fx.a) >>,
                !.off_b = << FlatAddrOffline(G_BASE, fx.b),
                             FlatAddrOffline(L_BASE, fx.b) >>]
    /\ pc' = "flat_addr_done"
    /\ UNCHANGED runVarsButPc

NextFlatAddr == DeriveFlatAddress

SpecFlatAddr == InitFlatAddr /\ [][NextFlatAddr]_vars

(***************************************************************************)
(* _inject_pki_client_trustpoint on its own: a rendered text is a sequence *)
(* of symbols, "\n" the line terminator, " " white space, "end" the word   *)
(* end, "x" and "!" other content.                                         *)
(***************************************************************************)
MaxTextLen == 4

Symbols == {"end", " ", "x", "!", "\n"}

\* the rendered texts tried
Texts == UNION {[1..n -> Symbols] : n \in 0..MaxTextLen}

\* the block spliced in, as lines
PkiBlock == << << "!" >>, << "crypto" >>, << "!" >> >>

\* str.splitlines(): the lines between the terminators; a terminator at the
\* end of the text opens no further line
RECURSIVE SplitFrom(_, _, _, _)
SplitFrom(t, k, cur, acc) ==
    IF k > Len(t)
    THEN IF cur = << >> THEN acc ELSE Append(acc, cur)
    ELSE IF t[k] = "\n"
    THEN SplitFrom(t, k + 1, << >>, Append(acc, cur))
    ELSE SplitFrom(t, k + 1, Append(cur, t[k]), acc)

splitlines(t) == SplitFrom(t, 1, << >>, << >>)

\* str.split("\n"): the pieces the separators written by join delimit
RECURSIVE SplitOn(_, _, _, _)
SplitOn(t, k, cur, acc) ==
    IF k > Len(t) THEN Append(acc, cur)
    ELSE IF t[k] = "\n" THEN SplitOn(t, k + 1, << >>, Append(acc, cur))
    ELSE SplitOn(t, k + 1, Append(cur, t[k]), acc)

\* "\n".join(lines)
RECURSIVE join(_)
join(lines) ==
    IF lines = << >> THEN << >>
    ELSE IF Len(lines) = 1 THEN lines[1]
    ELSE lines[1] \o << "\n" >> \o join(Tail(lines))

\* str.strip(): white space removed at both ends
RECURSIVE strip(_)
strip(line) ==
    IF line = << >> THEN line
    ELSE IF Head(line) = " " THEN strip(Tail(line))
    ELSE IF line[Len(line)] = " " THEN strip(SubSeq(line, 1, Len(line) - 1))
    ELSE line

\* the lines whose stripped content is "end"
EndLines(lines) == {k \in DOMAIN lines : strip(lines[k]) = << "end" >>}

\* the block goes in above the first "end" line
inject_before_first_end(rendered) ==
    LET lines == splitlines(rendered)
        ends == EndLines(lines)
    IN  IF ends # {}
        THEN LET end_idx == CHOOSE k \in ends : \A j \in ends : j >= k
             IN  join(SubSeq(lines, 1, end_idx - 1) \o PkiBlock
                      \o SubSeq(lines, end_idx, Len(lines)))
        ELSE join(lines \o PkiBlock)

\* render.py 485-493: the lines are searched from the last to the first for
\* one that strips to "end"; the block goes in at its index, or at the end
\* of the list when next() raises StopIteration
_inject_pki_client_trustpoint(rendered) ==
    LET lines == splitlines(rendered)
        ends == EndLines(lines)
    IN  IF ends # {}
        THEN LET end_idx == CHOOSE k \in ends : \A j \in ends : j <= k
             IN  join(SubSeq(lines, 1, end_idx - 1) \o PkiBlock
                      \o SubSeq(lines, end_idx, Len(lines)))
        ELSE join(lines \o PkiBlock)

\* str.rstrip(): white space and line terminators removed at the end
RECURSIVE rstrip(_)
rstrip(t) ==
    IF t = << >> THEN t
    ELSE IF t[Len(t)] \in {" ", "\n"} THEN rstrip(SubSeq(t, 1, Len(t) - 1))
    ELSE t

\* the block spliced into the configuration of CA-ROOT, as lines: the server
\* and enrollment lines, then the applet of _pki_ca_authenticate_eem_lines,
\* whose last line is "end"
CaBlock == << << "crypto" >>, << "!" >>, << "end" >> >>

\* the offline writers that emit CA-ROOT
CaWriters ==
    { "offline_dmvpn_yaml", "offline_dmvpn_flat_pair_yaml",
      "offline_flat_pair_yaml", "offline_flat_yaml" }

\* render.py 2098-2113, 2750-2769, 3912-3932: enumerate() searches the lines
\* from the first one for a line that strips to "end"; the block goes in at
\* its index, or at the end of the list when next() raises StopIteration
ca_splice(ca_base_config) ==
    LET ca_config_lines == splitlines(ca_base_config)
        ends == EndLines(ca_config_lines)
    IN  IF ends # {}
        THEN LET end_idx == CHOOSE k \in ends : \A j \in ends : j >= k
             IN  join(SubSeq(ca_config_lines, 1, end_idx - 1) \o CaBlock
                      \o SubSeq(ca_config_lines, end_idx, Len(ca_config_lines)))
        ELSE join(ca_config_lines \o CaBlock)

\* render.py 3308-3343 (offline_flat_yaml): the text is stripped at its end
\* and split; a last line that strips to "end" is popped; the block is
\* appended and an "end" line after it
ca_splice_flat(ca_base_config) ==
    LET split == SplitOn(rstrip(ca_base_config), 1, << >>, << >>)
        ca_config_lines ==
            IF strip(split[Len(split)]) = << "end" >>
            THEN SubSeq(split, 1, Len(split) - 1)
            ELSE split
    IN  join(ca_config_lines \o CaBlock \o << << "end" >> >>)

\* the configuration the writer emits for CA-ROOT
CaRendered(writer, ca_base_config) ==
    IF writer = "offline_flat_yaml" THEN ca_splice_flat(ca_base_config)
    ELSE ca_splice(ca_base_config)

InitInject ==
    /\ args = << >>
    /\ cfg = DefaultConfig
    /\ remote = "up"
    /\ pc = "inject"
    /\ retval = "running"
    /\ lab_created = FALSE
    /\ nodes = {}
    /\ links = {}
    /\ ifaces = << >>
    /\ configs = << >>
    /\ file_written = FALSE
    /\ i = 0
    /\ loopbacks = 0
    /\ p2pnets = 0
    /\ alloc_lo = << >>
    /\ alloc_p2p = << >>
    /\ pair_ips = << >>
    /\ hub_info = << >>
    /\ routers = << >>
    /\ prev_iface = NoAddr
    /\ ended_at = "none"
    /\ doc = NoDoc
    /\ outfile = "absent"
    /\ start_thread = "none"
    /\ \E t \in Texts : fx = [rendered |-> t, result |-> << >>, writer |-> "none"]

\* one call of the function on the text drawn
InjectTrustpoint ==
    /\ pc = "inject"
    /\ fx' = [fx EXCEPT !.result = _inject_pki_client_trustpoint(fx.rendered)]
    /\ pc' = "inject_done"
    /\ UNCHANGED runVarsButPc

\* one offline writer builds the configuration of CA-ROOT from the base
\* configuration drawn
SpliceCaBlock ==
    /\ pc = "inject"
    /\ \E w \in CaWriters :
          fx' = [fx EXCEPT !.result = CaRendered(w, fx.rendered), !.writer = w]
    /\ pc' = "ca_done"
    /\ UNCHANGED runVarsButPc

NextInject ==
    \/ InjectTrustpoint
    \/ SpliceCaBlock

SpecInject == InitInject /\ [][NextInject]_vars

(***************************************************************************)
(* The offline backend run twice: a second process is started on the      *)
(* command line and the configuration of a finished run, with a fresh     *)
(* output path.                                                            *)
(***************************************************************************)
\* the runs repeated: the offline runs with the document options varied,
\* and those with the options at their defaults on every configuration
RerunRuns ==
    DocRuns \cup {r \in BaseRuns : r[1].offline /\ r[1] \in PlainBase}

\* what a run has produced: its exit status, the document and what the
\* configurations were rendered from
Outcome ==
    [retval |-> retval, ended_at |-> ended_at, file_written |-> file_written,
     doc |-> doc, nodes |-> nodes, links |-> links, ifaces |-> ifaces,
     configs |-> configs, alloc_p2p |-> alloc_p2p, pair_ips |-> pair_ips,
     hub_info |-> hub_info]

\* a generator that goes on where the one of the earlier run stopped
p2p_iter_Resumed(yielded) == yielded

\* render.py 3690-3695, 2324-2330: the writer builds its generator over
\* cfg.p2pnets inside the call; nothing it yielded earlier is kept
p2p_iter(yielded) == << >>

\* main.py 721-744, render.py 3019-3022: the second process starts as the
\* first did (node_ids empty, nid 0, no line collected); args holds the
\* command line as main() left it, on which main() settles the same values
Rerun ==
    /\ pc = "done"
    /\ "first" \notin DOMAIN fx
    /\ fx' = [first |-> Outcome]
    /\ pc' = "main"
    /\ retval' = "running"
    /\ ended_at' = "none"
    /\ lab_created' = FALSE
    /\ nodes' = {}
    /\ links' = {}
    /\ ifaces' = << >>
    /\ configs' = << >>
    /\ file_written' = FALSE
    /\ i' = 0
    /\ loopbacks' = 0
    /\ p2pnets' = 0
    /\ alloc_lo' = << >>
    /\ alloc_p2p' = p2p_iter(alloc_p2p)
    /\ pair_ips' = << >>
    /\ hub_info' = << >>
    /\ routers' = << >>
    /\ prev_iface' = NoAddr
    /\ doc' = NoDoc
    /\ outfile' = "absent"
    /\ UNCHANGED << args, cfg, remote, start_thread >>

InitRerun == InitRun(RerunRuns, "up")

NextRerun ==
    \/ main
    \/ OfflineFlatValidate
    \/ OfflineFlatNodes
    \/ OfflineFlatLinks
    \/ OfflineFlatWrite
    \/ OfflineFlatPairValidate
    \/ OfflineFlatPairNodes
    \/ OfflineFlatPairLinks
    \/ OfflineFlatPairWrite
    \/ OfflineDmvpnValidate
    \/ OfflineDmvpnSwitches
    \/ OfflineDmvpnHubInfo
    \/ OfflineDmvpnRouters
    \/ OfflineDmvpnLinks
    \/ OfflineDmvpnWrite
    \/ OfflineDfpValidate
    \/ OfflineDfpSwitches
    \/ OfflineDfpHubInfo
    \/ OfflineDfpRouters
    \/ OfflineDfpLinks
    \/ OfflineDfpWrite
    \/ Rerun

SpecRerun == InitRerun /\ [][NextRerun]_vars

(***************************************************************************)
(* CoordsGenerator (models.py) on its own: the generator is the object's   *)
(* fields and the position of its three nested loops; one step is one      *)
(* next() on its iterator.                                                 *)
(***************************************************************************)
MaxPoints == 40

\* -d/--distance: an int, no range is checked
SpiralDistances == {0, 1, DefaultDistance}

Point(x, y) == << x, y >>

DIRSM_Reverse(dir) ==
    CASE dir = "l" -> "d" [] dir = "d" -> "r" [] dir = "r" -> "u" [] dir = "u" -> "l"

\* models.py 76: DIRSM
DIRSM(dir) ==
    CASE dir = "l" -> "u" [] dir = "u" -> "r" [] dir = "r" -> "d" [] dir = "d" -> "l"

\* models.py 90-97: the point moved one distance in the direction
Moved(point, dir, distance) ==
    CASE dir = "u" -> Point(point[1], point[2] + distance)
      [] dir = "r" -> Point(point[1] + distance, point[2])
      [] dir = "d" -> Point(point[1], point[2] - distance)
      [] dir = "l" -> Point(point[1] - distance, point[2])

\* models.py 78-82: __init__; leg is the position in 'for _ in (0, 1)', k the
\* position in 'for _ in range(self.step)', yielded the points drawn
InitSpiral ==
    /\ args = << >>
    /\ cfg = DefaultConfig
    /\ remote = "up"
    /\ pc = "coords"
    /\ retval = "running"
    /\ lab_created = FALSE
    /\ nodes = {}
    /\ links = {}
    /\ ifaces = << >>
    /\ configs = << >>
    /\ file_written = FALSE
    /\ i = 0
    /\ loopbacks = 0
    /\ p2pnets = 0
    /\ alloc_lo = << >>
    /\ alloc_p2p = << >>
    /\ pair_ips = << >>
    /\ hub_info = << >>
    /\ routers = << >>
    /\ prev_iface = NoAddr
    /\ ended_at = "none"
    /\ doc = NoDoc
    /\ outfile = "absent"
    /\ start_thread = "none"
    /\ \E d \in SpiralDistances :
          fx = [distance |-> d, step |-> 1, dir |-> "u", point |-> Point(0, 0),
                leg |-> 0, k |-> 0, started |-> FALSE, yielded |-> << >>]

\* models.py 84-98: the first next() runs to the yield; a later one resumes
\* behind it: the point moves, the loops go round (the direction turns when
\* range(self.step) is used up, the step grows when both legs are done) up
\* to the next yield
next_coords ==
    /\ pc = "coords"
    /\ Len(fx.yielded) < MaxPoints
    /\ IF ~fx.started
       THEN fx' = [fx EXCEPT !.started = TRUE,
                             !.yielded = Append(@, fx.point)]
       ELSE LET point == Moved(fx.point, fx.dir, fx.distance)
                turn == fx.k + 1 = fx.step
                grow == turn /\ fx.leg = 1
            IN  fx' = [fx EXCEPT
                         !.point = point,
                         !.k = IF turn THEN 0 ELSE fx.k + 1,
                         !.dir = IF turn THEN DIRSM(fx.dir) ELSE fx.dir,
                         !.leg = IF turn THEN 1 - fx.leg ELSE fx.leg,
                         !.step = IF grow THEN fx.step + 1 ELSE fx.step,
                         !.yielded = Append(@, point)]
    /\ UNCHANGED runVars

NextSpiral == next_coords

SpecSpiral == InitSpiral /\ [][NextSpiral]_vars

Next ==
    \/ main
    \/ RendererInit
    \/ FlatValidate
    \/ FlatCreateCore
    \/ FlatCreateSwitch
    \/ FlatCreateRouter
    \/ FlatCreateRouterFails
    \/ FlatFinish
    \/ StartThreadRuns
    \/ StartSleepReturns
    \/ OfflineFlatValidate
    \/ OfflineFlatNodes
    \/ OfflineFlatLinks
    \/ OfflineFlatWrite
    \/ FlatPairValidate
    \/ FlatPairCreateCore
    \/ FlatPairCreateSwitch
    \/ FlatPairPairIps
    \/ FlatPairCreateRouter
    \/ FlatPairCreatePairLink
    \/ OfflineFlatPairValidate
    \/ OfflineFlatPairNodes
    \/ OfflineFlatPairLinks
    \/ OfflineFlatPairWrite
    \/ DmvpnValidate
    \/ DmvpnCreateSwitch
    \/ DmvpnCreateRouter
    \/ DmvpnCreateRouterFails
    \/ DmvpnHubInfo
    \/ DmvpnRender
    \/ DmvpnRenderFails
    \/ OfflineDmvpnValidate
    \/ OfflineDmvpnSwitches
    \/ OfflineDmvpnHubInfo
    \/ OfflineDmvpnRouters
    \/ OfflineDmvpnLinks
    \/ OfflineDmvpnWrite
    \/ DfpValidate
    \/ DfpCreateCore
    \/ DfpCreateSwitch
    \/ DfpPairIps
    \/ DfpLoadCompanion
    \/ DfpCreateRouter
    \/ DfpLinkEndpoint
    \/ DfpCreatePairLink
    \/ DfpHubInfo
    \/ DfpRender
    \/ OfflineDfpValidate
    \/ OfflineDfpSwitches
    \/ OfflineDfpHubInfo
    \/ OfflineDfpRouters
    \/ OfflineDfpLinks
    \/ OfflineDfpWrite
    \/ SeqCreateExtConn
    \/ SeqCreateDnsHost
    \/ SeqCreateRouter
    \/ SeqFinish

Spec == Init /\ [][Next]_vars

(***************************************************************************)
(* Properties                                                              *)
(***************************************************************************)
\* the run is that of a flat-based mode
FlatBased(a) == a.mode \in {"flat", "flat-pair", "dmvpn"}

\* the devices the access fabric of the run has to carry
FabricCount(a) ==
    IF a.mode = "dmvpn"
    THEN IF a.dmvpn_underlay = "flat-pair" THEN TotalEndpoints(a.nodes)
         ELSE TotalRouters(a)
    ELSE a.nodes

\* one of the two guardrails is violated for the group size given
GuardrailViolated(a) ==
    /\ a.flat_group_size >= 1
    /\ \/ a.flat_group_size + 1 > MAX_SW_PORTS
       \/ Ceil(FabricCount(a), a.flat_group_size) > MAX_SW_PORTS

NoSideEffects ==
    /\ ~lab_created
    /\ nodes = {}
    /\ links = {}
    /\ ~file_written

\* C1: when a guardrail (group_size + 1 <= 32, ceil(node_count / group_size)
\* <= 32) is violated, a run of a flat-based mode, with either backend, never
\* creates a lab, a node or a link and never writes a file, and it ends with
\* an error.
C1_GuardrailZeroSideEffects ==
    (pc # "main" /\ FlatBased(args) /\ GuardrailViolated(args))
        => /\ NoSideEffects
           /\ pc = "done" => retval \in {"error", "usage"}

(***************************************************************************)
\* the address ranges of two networks intersect
Overlaps(n1, n2) ==
    n1.addr <= BroadcastAddress(n2) /\ n2.addr <= BroadcastAddress(n1)

NoTwoOverlap(allocated) ==
    \A j, k \in DOMAIN allocated : j # k => ~Overlaps(allocated[j], allocated[k])

InNet(addr, net) == net.addr <= addr /\ addr <= BroadcastAddress(net)

\* two addresses are different hosts of the /30 allocated k-th
SameSlash30(a, b, k) ==
    /\ a # b
    /\ k \in DOMAIN alloc_p2p
    /\ alloc_p2p[k].plen = 30
    /\ InNet(a, alloc_p2p[k])
    /\ InNet(b, alloc_p2p[k])

\* the sequential build: the link between R<k> slot 0 and R<k+1> slot 1 carries
\* the first interface address of R<k> and the second of R<k+1>
SeqLinkHostsOk ==
    \A k \in 1..args.nodes :
        (R(k) \in DOMAIN configs /\ R(k + 1) \in DOMAIN configs)
            => SameSlash30(configs[R(k)].addrs[1], configs[R(k + 1)].addrs[2], k + 1)

\* the flat-pair builds: the pair link of odd router k carries pair_ips[k]
PairLinkHostsOk ==
    \A odd \in DOMAIN pair_ips :
        SameSlash30(pair_ips[odd][1], pair_ips[odd][2], (odd + 1) \div 2)

\* C2: in one run no two subnets returned from the same pool (loopback /32s,
\* point-to-point /30s) overlap, and the two addresses handed out for one
\* point-to-point link are distinct hosts of the same /30.
C2_AllocationsDisjoint ==
    /\ NoTwoOverlap(alloc_lo)
    /\ NoTwoOverlap(alloc_p2p)
    /\ PairLinkHostsOk
    /\ (args.mode = "simple" /\ ~args.offline) => SeqLinkHostsOk

C2_Witness ==
    /\ pc = "done"
    /\ retval = "ok"
    /\ args.mode = "simple"
    /\ ~args.offline
    /\ Len(alloc_lo) >= 3
    /\ Len(alloc_p2p) >= 4
    /\ R(3) \in DOMAIN configs

(***************************************************************************)
FirstLoopback == SubnetAt(cfg.loopbacks, IPV4LENGTH - cfg.loopbacks.plen, 0)
FirstP2p == SubnetAt(cfg.p2pnets, P2pDiff(cfg.p2pnets), 0)

C4_FlatAddressInjective ==
    pc = "flat_addr_done" =>
        /\ fx.a # fx.b =>
              /\ fx.live_a[1] # fx.live_b[1]
              /\ fx.live_a[2] # fx.live_b[2]
              /\ fx.off_a[1] # fx.off_b[1]
              /\ fx.off_a[2] # fx.off_b[2]
        /\ fx.live_a = fx.off_a
        /\ fx.live_b = fx.off_b

\* two indices with the same fourth byte whose third bytes differ in the top
\* bit only
C4_Witness ==
    /\ pc = "flat_addr_done"
    /\ fx.a = 256
    /\ fx.b = 129 * 256
    /\ fx.live_a # fx.live_b

(***************************************************************************)
Done == pc = "done" /\ retval = "ok"

LinksOf(label) == {l \in links : \E e \in l : e[1] = label}

LinksBetween(a, b) ==
    {l \in links : \E e1 \in l, e2 \in l : e1[1] = a /\ e2[1] = b}

\* the links of a node whose other end is a switch of the given family
SwitchLinksOf(label, family) ==
    {l \in LinksOf(label) : \E e \in l : e[1][1] = family}

\* the end of a link that is on a switch of the given family
SwitchEnd(l, family) == CHOOSE e \in l : e[1][1] = family

RouterLinks == {l \in links : \A e \in l : e[1][1] = "R"}

LabelsOf(def) == {n.label : n \in {m \in nodes : m.def = def}}

\* C5: a finished flat build of N routers with group size g, with either
\* backend, has exactly ceil(N/g) access switches, each with exactly one link
\* to the core; router i has exactly one link, to access switch
\* floor((i-1)/g)+1, on a port no other router uses; no link joins two
\* routers; the core has exactly ceil(N/g) links.
C5_FlatFabric ==
    (Done /\ args.mode = "flat") =>
        LET N == args.nodes
            g == args.flat_group_size
            S == Ceil(N, g)
        IN  /\ LabelsOf("unmanaged_switch") = {SW(k) : k \in 0..S}
            /\ LabelsOf("router") = {R(n) : n \in 1..N}
            /\ \A k \in 1..S : Cardinality(LinksBetween(SW(k), SW(0))) = 1
            /\ \A n \in 1..N :
                  /\ Cardinality(LinksOf(R(n))) = 1
                  /\ LinksOf(R(n)) = LinksBetween(R(n), SW((n - 1) \div g + 1))
            /\ \A n \in 1..N, m \in 1..N :
                  n # m =>
                     \A l1 \in LinksOf(R(n)), l2 \in LinksOf(R(m)) :
                        SwitchEnd(l1, "SW") # SwitchEnd(l2, "SW")
            /\ RouterLinks = {}
            /\ Cardinality(LinksOf(SW(0))) = S

\* five routers in groups of two, built on the controller: three access
\* switches, the last with one router
C5_Witness ==
    /\ Done
    /\ args.mode = "flat"
    /\ ~args.offline
    /\ args.nodes = 5
    /\ args.flat_group_size = 2
    /\ Cardinality(links) = 8

(***************************************************************************)
OddRouters(N) == {k \in 1..N : k % 2 = 1}

DmvpnRendered(l) == args.dmvpn_underlay = "flat" \/ l[2] % 2 = 1

AddressOf(interfaces, desc) == interfaces[FirstWith(interfaces, desc)].address

\* the NBMA and tunnel addresses on the interfaces of hub h
OwnHubEntry(h) ==
    HubInfoEntry(AddressOf(routers[h].interfaces, "dmvpn nbma"),
                 AddressOf(routers[h].interfaces, "dmvpn tunnel"))

\* C7: in DMVPN mode the hub_info list a router configuration is rendered
\* from holds, for every router of the hub set, that hub's NBMA and tunnel
\* address as configured on the hub's own interfaces, and nothing else; this
\* holds from the first configuration rendered on.
C7_HubInfoComplete ==
    args.mode = "dmvpn" =>
        \A l \in DOMAIN configs :
            DmvpnRendered(l) =>
                LET hi == configs[l].hub_info
                IN  /\ HubSet(args) \subseteq DOMAIN routers
                    /\ {hi[k] : k \in DOMAIN hi} = {OwnHubEntry(h) : h \in HubSet(args)}
                    /\ Len(hi) = Cardinality(HubSet(args))
                    /\ \A h \in HubSet(args) :
                          R(h) \in DOMAIN configs =>
                             \E k \in DOMAIN hi :
                                /\ hi[k].hub_nbma_ip =
                                      AddressOf(configs[R(h)].addrs, "dmvpn nbma")
                                /\ hi[k].hub_tunnel_ip =
                                      AddressOf(configs[R(h)].addrs, "dmvpn tunnel")

\* the first configuration of a live build with two hubs has been rendered: a
\* spoke is still to come
C7_Witness ==
    /\ args.mode = "dmvpn"
    /\ ~args.offline
    /\ Cardinality(args.dmvpn_hubs_list) = 2
    /\ pc = "dmvpn_render"
    /\ DOMAIN configs = {R(1)}
    /\ Len(configs[R(1)].hub_info) = 2
    /\ Len(routers) > 2

(***************************************************************************)
\* a designated hub does not exist
HubOutOfRange(a) ==
    /\ a.mode = "dmvpn"
    /\ \E h \in a.dmvpn_hubs_list :
          \/ h < 1
          \/ h > a.nodes
          \/ a.dmvpn_underlay = "flat-pair" /\ (h % 2 = 0 \/ h > MaxOddRnum(a.nodes))

\* C8: a hub number outside the valid router range (below 1, above the number
\* of routers; flat-pair underlay: even, or above the highest odd router) ends
\* the run with an error before a lab or node is created or a file written.
C8_HubOutOfRangeRejected ==
    HubOutOfRange(args) =>
        /\ NoSideEffects
        /\ pc \in {"main", "done"}
        /\ pc = "done" => retval = "usage"

C8_Witness ==
    /\ pc = "done"
    /\ retval = "usage"
    /\ args.mode = "dmvpn"
    /\ args.dmvpn_underlay = "flat"
    /\ args.nodes + 1 \in args.dmvpn_hubs_list
    /\ 1 \in args.dmvpn_hubs_list

(***************************************************************************)
\* a host address of the network: neither its network nor its broadcast address
Usable(addr, net) == net.addr < addr /\ addr < BroadcastAddress(net)

\* C9: DMVPN over the flat underlay, either backend: router n gets the NBMA
\* address (NBMA network + n) and the tunnel address (tunnel network + n),
\* both usable hosts of their pools; no two routers share one; a finished
\* build on which no remote call failed has the routers 1..total; a router is
\* rendered as a hub exactly if it is in the hub set.
C9_DmvpnAddressing ==
    (args.mode = "dmvpn" /\ args.dmvpn_underlay = "flat") =>
        /\ \A n \in DOMAIN routers :
              /\ AddressOf(routers[n].interfaces, "dmvpn nbma") = args.nbma.addr + n
              /\ AddressOf(routers[n].interfaces, "dmvpn tunnel") = args.tunnel.addr + n
              /\ Usable(AddressOf(routers[n].interfaces, "dmvpn nbma"), args.nbma)
              /\ Usable(AddressOf(routers[n].interfaces, "dmvpn tunnel"), args.tunnel)
        /\ \A n \in DOMAIN routers, m \in DOMAIN routers :
              n # m =>
                 /\ AddressOf(routers[n].interfaces, "dmvpn nbma")
                       # AddressOf(routers[m].interfaces, "dmvpn nbma")
                 /\ AddressOf(routers[n].interfaces, "dmvpn tunnel")
                       # AddressOf(routers[m].interfaces, "dmvpn tunnel")
        /\ \A l \in DOMAIN configs :
              /\ l[2] \in DOMAIN routers
              /\ configs[l].addrs = routers[l[2]].interfaces
              /\ configs[l].is_hub <=> l[2] \in HubSet(args)
        /\ (Done /\ remote # "failed") =>
              /\ DOMAIN routers = 1..TotalRouters(args)
              /\ DOMAIN configs = {R(n) : n \in 1..TotalRouters(args)}

\* two routers in a /30: the second holds the last usable host, and is a spoke
C9_Witness ==
    /\ Done
    /\ args.mode = "dmvpn"
    /\ args.dmvpn_underlay = "flat"
    /\ args.nbma.plen = 30
    /\ Len(routers) = 2
    /\ ~configs[R(2)].is_hub
    /\ configs[R(1)].is_hub

(***************************************************************************)
\* C10: a finished live DMVPN build over the flat underlay has the switches,
\* the routers and the links of the document the offline backend writes for
\* the same arguments.
C10_SameDesign ==
    (Done /\ args.mode = "dmvpn" /\ args.dmvpn_underlay = "flat" /\ ~args.offline)
        => /\ nodes = OfflineDmvpnSwitchNodes(args) \cup OfflineDmvpnRouterNodes(args)
           /\ links = OfflineDmvpnLinkSet(args)

(***************************************************************************)
\* the indices of the unmanaged switches of the document
DocSwitches ==
    {k \in DOMAIN doc.nodes : doc.nodes[k].node_definition = "unmanaged_switch"}

\* the link entries of the document with an end on the node numbered id
DocLinksOf(id) ==
    {k \in DOMAIN doc.links : doc.links[k].n1 = id \/ doc.links[k].n2 = id}

\* C11: no unmanaged switch (core, access, NBMA, management) has more than
\* 32 ports declared or linked: in the document of the offline backend, and
\* among the links created on the controller by the live backend.
C11_SwitchPortsWithin32 ==
    /\ \A k \in DocSwitches :
          /\ Len(doc.nodes[k].interfaces) <= MAX_SW_PORTS
          /\ Cardinality(DocLinksOf(doc.nodes[k].id)) <= MAX_SW_PORTS
    /\ \A l \in LabelsOf("unmanaged_switch") :
          Cardinality(LinksOf(l)) <= MAX_SW_PORTS

(***************************************************************************)
Abs(n) == IF n < 0 THEN -n ELSE n

\* C12: in every offline document every node entry, the management switches
\* and the CA node included, has an x and a y of magnitude at most 15000,
\* for every node count, group size and distance the guardrails accept.
C12_CoordinatesWithinCeiling ==
    \A k \in DOMAIN doc.nodes :
        /\ Abs(doc.nodes[k].x) <= MAX_COORD
        /\ Abs(doc.nodes[k].y) <= MAX_COORD

(***************************************************************************)
\* the entries of a sequence differ pairwise in the field read by f
DistinctBy(entries, f(_)) ==
    \A j, k \in DOMAIN entries : j # k => f(entries[j]) # f(entries[k])

IdOf(e) == e.id
SlotOf(e) == e.slot

\* C13: in every offline document the node ids are pairwise distinct, the
\* link ids are pairwise distinct, and within each node entry the interface
\* ids and the slots are pairwise distinct, whatever the mode, device type,
\* management slot and PKI/management options.
C13_IdentifiersDistinct ==
    /\ DistinctBy(doc.nodes, IdOf)
    /\ DistinctBy(doc.links, IdOf)
    /\ \A k \in DOMAIN doc.nodes :
          /\ DistinctBy(doc.nodes[k].interfaces, IdOf)
          /\ DistinctBy(doc.nodes[k].interfaces, SlotOf)

(***************************************************************************)
\* the end (node id, interface id) is a declared interface of a declared node
Resolvable(n, ifc) ==
    \E k \in DOMAIN doc.nodes :
        /\ doc.nodes[k].id = n
        /\ \E p \in DOMAIN doc.nodes[k].interfaces :
              doc.nodes[k].interfaces[p].id = ifc

\* C14: in every offline document both ends of every link entry (uplinks,
\* router links, pair links, management links, CA links) name a node entry
\* of the document and an interface entry of that node.
C14_LinkEndsResolvable ==
    \A k \in DOMAIN doc.links :
        /\ Resolvable(doc.links[k].n1, doc.links[k].i1)
        /\ Resolvable(doc.links[k].n2, doc.links[k].i2)

\* a written document with pair links, management links through the bridge
\* and both CA links
C14_Witness ==
    /\ Done /\ args.offline /\ file_written
    /\ args.mode = "dmvpn" /\ args.dmvpn_underlay = "flat-pair"
    /\ args.pki_enabled /\ args.enable_mgmt /\ args.mgmt_bridge
    /\ args.dev_template = "csr1000v"
    /\ \E k \in DOMAIN doc.links :
          /\ doc.links[k].n1 = node_ids(doc.nodes, CA_ROOT)
          /\ doc.links[k].n2 = node_ids(doc.nodes, SWoob(0))

(***************************************************************************)
\* the steps that end an offline writer
WritePcs ==
    {"offline_flat_write", "offline_flat_pair_write", "offline_dmvpn_write",
     "offline_dfp_write"}

\* C15: an offline run onto a path that holds a file, without --overwrite,
\* ends with an error and leaves the file as it was; the output file changes
\* in one step only, the last of a writer, after the node and link entries
\* of the whole document have been produced, and that run ends with success.
C15_NoSilentOverwrite ==
    [][ /\ (outfile = "old" /\ ~args.overwrite)
            => /\ outfile' = "old"
               /\ (pc \in WritePcs => pc' = "done" /\ retval' = "error")
        /\ outfile' # outfile
            => /\ pc \in WritePcs /\ pc' = "done" /\ retval' = "ok"
               /\ outfile' = "document"
               /\ doc.nodes # << >> /\ doc.links # << >> /\ doc' = doc ]_vars

\* a writer has refused to replace the existing file
C15_Witness ==
    /\ pc = "done" /\ ended_at \in WritePcs /\ retval = "error"
    /\ outfile = "old" /\ ~args.overwrite /\ ~file_written
    /\ doc.links # << >>

(***************************************************************************)
\* the command line carries a configuration error: an unknown template, an
\* invalid or too small DMVPN CIDR, or, for the flat-pair underlay, a
\* template that is not a '-dmvpn' one or lacks its companion
ConfigurationError(a) ==
    \/ ~TemplateExists(a.template)
    \/ /\ a.mode = "dmvpn"
       /\ \/ ~ValidNetwork(a.nbma) \/ ~ValidNetwork(a.tunnel)
          \/ /\ a.dmvpn_underlay = "flat"
             /\ \/ CidrTooSmall(TotalRouters(a), a.nbma)
                \/ CidrTooSmall(TotalRouters(a), a.tunnel)
          \/ /\ a.dmvpn_underlay = "flat-pair"
             /\ \/ CidrTooSmall(MaxOddRnum(a.nodes), a.nbma)
                \/ CidrTooSmall(MaxOddRnum(a.nodes), a.tunnel)
                \/ CompanionError(a.template)

\* C16: a live run whose command line carries a configuration error (invalid
\* CIDR, pool too small, template not a '-dmvpn' one or without companion,
\* unknown template) never creates a node, a switch or a link on the
\* controller, and ends with an error.
C16_ConfigErrorsBeforeCreation ==
    (pc # "main" /\ ~args.offline /\ ConfigurationError(args))
        => /\ nodes = {} /\ links = {}
           /\ pc = "done" => retval \in {"error", "usage"}

(***************************************************************************)
\* the run has ended on a next() of a subnet generator that had run out
\* (StopIteration leaves main uncaught: the interpreter exits with 1)
CursorRanOut ==
    /\ pc = "done" /\ retval = "crash"
    /\ ended_at \in {"flat_pair_ips", "dfp_pair_ips", "seq_dns_host",
                      "seq_routers", "offline_flat_pair_nodes",
                      "offline_dfp_routers"}

\* C17: when the point-to-point pool or the loopback pool has fewer subnets
\* than the build needs, the run fails and nothing is partially emitted: at
\* the moment the cursor runs out no node or link has been created on the
\* controller and no file has been written.
C17_ExhaustionEmitsNothing ==
    CursorRanOut
        => /\ ~args.offline => nodes = {} /\ links = {}
           /\ ~file_written /\ outfile # "document"

(***************************************************************************)
\* C18: in a live run, once a remote call (create node, create link, assign
\* configuration) has failed, the run has ended with a failure status: the
\* failure is never dropped with the build going on to a success.
C18_RemoteFailureAborts ==
    remote = "failed" => pc = "done" /\ retval \in {"error", "crash"}

(***************************************************************************)
\* every router of the run exists, is linked and has its configuration
AllEmitted ==
    /\ LabelsOf("router") = {R(n) : n \in 1..args.nodes}
    /\ \A n \in 1..args.nodes :
          /\ LinksOf(R(n)) # {}
          /\ R(n) \in DOMAIN configs

\* C19: the start request is a background thread that exists only once all
\* nodes, links and configurations of the run are emitted; the run returns
\* without waiting for it (its return is enabled while the thread is still
\* running), and whatever the thread does, failing included, the run
\* returns 0.
C19_StartInBackground ==
    /\ start_thread # "none" => AllEmitted /\ pc \in {"start_sleep", "done"}
    /\ pc = "start_sleep" => ENABLED StartSleepReturns
    /\ (pc = "done" /\ start_thread # "none") => retval = "ok"

\* the start request has failed and the run has returned 0
C19_Witness ==
    /\ pc = "done" /\ retval = "ok"
    /\ args.start_lab /\ start_thread = "failed"
    /\ AllEmitted

(***************************************************************************)
\* C20: the returned text holds the lines of the rendered text and the
\* block: the block stands immediately before the last line that strips to
\* "end", or after the last line when no line does; the original lines
\* before and after it keep their content and their order; a text is
\* returned in both cases.
C20_BlockBeforeLastEnd ==
    pc = "inject_done" =>
        LET L == splitlines(fx.rendered)
            Lr == SplitOn(fx.result, 1, << >>, << >>)
            n == Len(PkiBlock)
            ends == EndLines(L)
            p == IF ends = {} THEN Len(L) + 1
                 ELSE CHOOSE k \in ends : \A j \in ends : j <= k
        IN  /\ Len(Lr) = Len(L) + n
            /\ \A k \in 1..(p - 1) : Lr[k] = L[k]
            /\ \A j \in 1..n : Lr[p - 1 + j] = PkiBlock[j]
            /\ \A k \in p..Len(L) : Lr[k + n] = L[k]
            /\ ends # {} => /\ strip(Lr[p + n]) = << "end" >>
                            /\ \A k \in (p + n + 1)..Len(Lr) :
                                  strip(Lr[k]) # << "end" >>

\* a text with two "end" lines, the later one indented, has been spliced
C20_Witness ==
    /\ pc = "inject_done"
    /\ fx.rendered = << "end", "\n", " ", "end" >>
    /\ fx.result = << "end", "\n", "!", "\n", "crypto", "\n", "!", "\n",
                      " ", "end" >>

(***************************************************************************)
\* C21: on the certificate-authority node, for every offline writer, the
\* emitted configuration holds the lines of the rendered base configuration
\* and the CA block: the block stands immediately before the last line of
\* the base configuration that strips to "end", or after the last line when
\* no line does; the other lines keep their content and their order.
C21_CaBlockBeforeLastEnd ==
    pc = "ca_done" =>
        LET L == splitlines(fx.rendered)
            Lr == SplitOn(fx.result, 1, << >>, << >>)
            n == Len(CaBlock)
            ends == EndLines(L)
            p == IF ends = {} THEN Len(L) + 1
                 ELSE CHOOSE k \in ends : \A j \in ends : j <= k
        IN  /\ Len(Lr) = Len(L) + n
            /\ \A k \in 1..(p - 1) : Lr[k] = L[k]
            /\ \A j \in 1..n : Lr[p - 1 + j] = CaBlock[j]
            /\ \A k \in p..Len(L) : strip(Lr[k + n]) = strip(L[k])

C23_DefaultHubIsRouterOne ==
    [][ (/\ pc = "main"
         /\ args.mode = "dmvpn"
         /\ args.dmvpn_hubs_list = {}
         /\ pc' # "done")
        => HubSet(args') = {1} ]_vars

(***************************************************************************)
\* C24: an offline run in mode simple that ends well has emitted the
\* sequential shape: the gateway, the shared-services host and routers
\* R1..RN, each router from the second on linked point-to-point to the one
\* before it, and no switch fabric; the offline backend emits the shape of
\* the mode selected.
C24_OfflineRealizesSelectedShape ==
    (Done /\ args.offline /\ args.mode = "simple") =>
        LET labels == {n.label : n \in nodes}
        IN  /\ EXT_CON_NAME \in labels
            /\ DNS_HOST_NAME \in labels
            /\ {l \in labels : l[1] = "R"} = {R(k) : k \in 1..args.nodes}
            /\ \A k \in 2..args.nodes : Link(R(k), 1, R(k - 1), 0) \in links
            /\ \A l \in labels : l[1] \notin {"SW", "SWoob"}

(***************************************************************************)
\* the run (1, 2, 3, ...) the j-th move belongs to when the runs are 1, 1,
\* 2, 2, 3, 3, ... moves long
RECURSIVE RunOfMove(_, _)
RunOfMove(j, r) ==
    IF j <= (r + 1) \div 2 THEN r ELSE RunOfMove(j - (r + 1) \div 2, r + 1)

\* the direction of the r-th run when the runs cycle up, right, down, left
DirOfRun(r) == << "u", "r", "d", "l" >>[((r - 1) % 4) + 1]

\* the points drawn start at (0,0) and every move is one distance on one
\* axis, in the direction of its run
SpiralShape ==
    LET Y == fx.yielded
    IN  /\ Len(Y) >= 1 => Y[1] = Point(0, 0)
        /\ \A j \in 1..(Len(Y) - 1) :
              Y[j + 1] = Moved(Y[j], DirOfRun(RunOfMove(j, 1)), fx.distance)

\* no point has been drawn twice
SpiralDistinct ==
    \A a, b \in 1..Len(fx.yielded) : a # b => fx.yielded[a] # fx.yielded[b]

\* C25 as stated: the generator yields (0,0) first, its directions cycle
\* up, right, down, left with run lengths 1, 1, 2, 2, 3, 3, ..., each point
\* is one distance from the one before it on one axis, and no point is ever
\* yielded twice, whatever the number of points drawn.
C25_SpiralAsStated ==
    pc = "coords" => SpiralShape /\ SpiralDistinct

\* C25 amended: the same for a generator whose distance is not 0.
C25_Spiral ==
    (pc = "coords" /\ fx.distance # 0) => SpiralShape /\ SpiralDistinct

\* the generator with the default distance has been round the origin twice
C25_Witness ==
    /\ pc = "coords"
    /\ fx.distance = DefaultDistance
    /\ Len(fx.yielded) >= 26
    /\ fx.yielded[2] = Point(0, DefaultDistance)
    /\ fx.yielded[3] = Point(DefaultDistance, DefaultDistance)
    /\ fx.yielded[5] = Point(DefaultDistance, -DefaultDistance)
    /\ fx.step >= 5

(***************************************************************************)
\* the two addresses are the two hosts of the k-th point-to-point allocation
HostsOfAllocation(a, b, k) ==
    /\ k \in DOMAIN alloc_p2p
    /\ alloc_p2p[k].plen = 30
    /\ {a, b} = {Hosts(alloc_p2p[k])[1], Hosts(alloc_p2p[k])[2]}
    /\ a # b

\* C26: a sequential build of N routers that ends well has taken N+1
\* point-to-point allocations and N loopback allocations; the address of
\* the services host and the upstream address of R1 are the two hosts of
\* the first allocation, the downstream address of R(k-1) and the upstream
\* address of Rk the two hosts of the k-th; the link of Rk joins its slot 1
\* to slot 0 of R(k-1), to slot 1 of the services host for R1; and at every
\* moment of the build both ends of every link are nodes that exist.
C26_SequentialChain ==
    (args.mode = "simple" /\ ~args.offline) =>
        /\ \A l \in links : \A e \in l : e[1] \in {n.label : n \in nodes}
        /\ Done =>
              LET N == args.nodes
              IN  /\ Len(alloc_p2p) = N + 1 /\ p2pnets = N + 1
                  /\ Len(alloc_lo) = N /\ loopbacks = SkipFirst(0) + N
                  /\ HostsOfAllocation(configs[DNS_HOST_NAME].addrs[1],
                                       configs[R(1)].addrs[2], 1)
                  /\ \A k \in 2..N :
                        HostsOfAllocation(configs[R(k - 1)].addrs[1],
                                          configs[R(k)].addrs[2], k)
                  /\ { << R(1), 1 >>, << DNS_HOST_NAME, 1 >> } \in links
                  /\ \A k \in 2..N :
                        { << R(k), 1 >>, << R(k - 1), 0 >> } \in links
                  /\ \A k \in 1..N :
                        Cardinality({l \in links : << R(k), 1 >> \in l}) = 1

\* a chain of three routers is built; R2's upstream address is the first
\* host of the second allocation
C26_Witness ==
    /\ Done /\ args.mode = "simple" /\ ~args.offline /\ args.nodes = 3
    /\ Len(alloc_p2p) = 4
    /\ configs[R(2)].addrs[2] = Hosts(alloc_p2p[2])[1]
    /\ configs[R(1)].addrs[1] = Hosts(alloc_p2p[2])[2]
    /\ { << R(3), 1 >>, << R(2), 0 >> } \in links

(***************************************************************************)
\* C27: in DMVPN mode with the flat underlay the routers built are R1..Rn,
\* n the node count when a hub list is given and the node count plus one
\* (R1 as hub and node-count spokes) when none is given, with the live and
\* with the offline backend alike; and whenever a node of such a run
\* exists, that same n has passed the capacity check of the NBMA and of the
\* tunnel pool.
C27_DmvpnFlatRouterCount ==
    (args.mode = "dmvpn" /\ args.dmvpn_underlay = "flat") =>
        LET n == IF args.dmvpn_hubs_list = {} THEN args.nodes + 1
                 ELSE args.nodes
        IN  /\ Done => LabelsOf("router") = {R(k) : k \in 1..n}
            /\ nodes # {} => /\ n <= NumAddresses(args.nbma) - 2
                             /\ n <= NumAddresses(args.tunnel) - 2

\* without a hub list two nodes asked for give three routers, with both
\* backends
C27_Witness ==
    /\ Done /\ args.mode = "dmvpn" /\ args.dmvpn_underlay = "flat"
    /\ args.dmvpn_hubs_list = {} /\ args.nodes = 2
    /\ LabelsOf("router") = {R(1), R(2), R(3)}
    /\ NumAddresses(args.nbma) = 8

(***************************************************************************)
\* C28: a run of a flat-based mode (flat, flat-pair, DMVPN; live or
\* offline) whose flat group size is below 1 creates no node and writes no
\* file, and ends with the configuration error (exit status 1): the value
\* is not replaced by another group size and causes no other failure.
\* (Runs whose command line carries another error, a hub out of range or a
\* configuration error, are left aside.)
C28_GroupSizeBelowOneRejected ==
    (/\ FlatBased(args) /\ args.flat_group_size < 1
     /\ ~HubOutOfRange(args) /\ ~ConfigurationError(args)) =>
        /\ nodes = {} /\ doc = NoDoc /\ ~file_written
        /\ pc = "done" => retval = "error"

(***************************************************************************)
\* C29: in an offline DMVPN document with PKI, with either underlay, the
\* NBMA address of CA-ROOT is the last usable host of the NBMA network and
\* no router's NBMA address equals it.
C29_CaNbmaAddressUnique ==
    (Done /\ args.mode = "dmvpn" /\ args.offline /\ args.pki_enabled) =>
        \A k \in DOMAIN doc.nodes :
            doc.nodes[k].label = CA_ROOT =>
                /\ doc.nodes[k].nbma_ip = BroadcastAddress(args.nbma) - 1
                /\ \A l \in DOMAIN configs :
                      \A j \in DOMAIN configs[l].addrs :
                          configs[l].addrs[j].description = "dmvpn nbma"
                              => configs[l].addrs[j].address # doc.nodes[k].nbma_ip

(***************************************************************************)
\* C30: in every live mode, a run with --start that has emitted its lab and
\* returned 0 has created the one thread that sends the start request to
\* the controller; a run without --start never creates it.
C30_StartRequestIssued ==
    /\ (Done /\ ~args.offline /\ args.start_lab) => start_thread # "none"
    /\ ~args.start_lab => start_thread = "none"

====
